---- MODULE Spec2Model ----
(***************************************************************************)
(* Model of the JSON-RPC 2.0 server of jsonrpc_server/server.py and of the *)
(* services of jsonrpc_server/methods.py it dispatches to.                 *)
(*                                                                         *)
(* JSON values (what request.get_json() hands to the server, and what      *)
(* jsonify() is given) are tagged records:                                 *)
(*   null   [t |-> "null"]               Python None                       *)
(*   bool   [t |-> "bool", b |-> ...]                                      *)
(*   int    [t |-> "int", n |-> ...]                                       *)
(*   float  [t |-> "float", num, den]    an exact fraction in lowest terms *)
(*   str    [t |-> "str", s |-> <<..>>]  the text as a sequence of         *)
(*                                       fragments; a literal is one       *)
(*                                       fragment, an f-string several     *)
(*   list   [t |-> "list", l |-> <<..>>]                                   *)
(*   obj    [t |-> "obj", o |-> f]       f a function from key strings     *)
(***************************************************************************)
EXTENDS Integers, Sequences, FiniteSets, TLC

VARIABLES
    users,          \* UserService.users: user id -> stored record
    next_id,        \* UserService.next_id
    body,           \* the body of the POST being handled (last request)
    http,           \* the response _handle_request returned for it
    invoked,        \* the handlers that request made _call_method invoke, in order
    last_call,      \* the last call made on a service, a resource or the client itself
    last_out,       \* what that call returned or raised
    live,           \* the ids create_user returned and delete_user has not removed since
    created,        \* the instances on which a create call made directly has returned
    rest_users,     \* UserResource.users
    rest_next_id,   \* UserResource.next_id
    client_request_id,  \* JSONRPCClient.request_id
    sent_ids,       \* the ids of the requests the client has sent
    frames,         \* the create_user calls in progress, one per thread
    key_order,      \* the keys of UserService.users in insertion order, while calls interleave
    tax_store,      \* a TaxCalculationResource: [calculations, next_id]
    calc_store      \* a CalculationResource: [calculations, next_id]

\* the state of the JSON-RPC server and of the request it handled last
server_vars == <<users, next_id, body, http, invoked>>

\* the UserService called directly, the REST UserResource, and the call made last
store_vars == <<live, created, rest_users, rest_next_id, last_call, last_out>>

\* the JSON-RPC client
client_vars == <<client_request_id, sent_ids>>

\* the threads calling create_user concurrently
race_vars == <<frames, key_order>>

\* the two calculation resources of the REST API
calc_vars == <<tax_store, calc_store>>

vars == <<server_vars, store_vars, client_vars, race_vars, calc_vars>>

----------------------------------------------------------------------------
(* JSON / Python values *)

Null == [t |-> "null"]
Bool(b) == [t |-> "bool", b |-> b]
Num(n) == [t |-> "int", n |-> n]
Str(s) == [t |-> "str", s |-> IF s = "" THEN <<>> ELSE <<s>>]
FStr(frags) == [t |-> "str", s |-> frags]
List(l) == [t |-> "list", l |-> l]
Obj(o) == [t |-> "obj", o |-> o]
EmptyMap == [k \in {} |-> Null]

\* datetime.now().isoformat() and str(uuid.uuid4()): strings whose content
\* comes from the clock and the random source; the model keeps one token for
\* each and does not track their content.
Timestamp == [t |-> "str", s |-> <<"<now>">>]
Uuid == [t |-> "str", s |-> <<"<uuid4>">>]

Abs(n) == IF n < 0 THEN -n ELSE n

RECURSIVE Gcd(_, _)
Gcd(a, b) == IF b = 0 THEN a ELSE Gcd(b, a % b)

\* a Python float, kept as the exact fraction num/den in lowest terms, den > 0
Float(num, den) ==
    LET g == Gcd(Abs(num), Abs(den))
        s == IF den < 0 THEN -1 ELSE 1
    IN  [t |-> "float", num |-> (s * num) \div g, den |-> (s * den) \div g]

IsNumber(v) == v.t \in {"int", "float", "bool"}
IsIntLike(v) == v.t \in {"int", "bool"}
NumOf(v) == CASE v.t = "int" -> v.n
              [] v.t = "bool" -> (IF v.b THEN 1 ELSE 0)
              [] v.t = "float" -> v.num
DenOf(v) == IF v.t = "float" THEN v.den ELSE 1

\* the number num/den as Python would type it: a float when an operand was one
MkNum(isFloat, num, den) == IF isFloat THEN Float(num, den) ELSE Num(num)

\* Python truthiness (bool(v))
Truthy(v) == CASE v.t = "null" -> FALSE
               [] v.t = "bool" -> v.b
               [] v.t = "int" -> v.n # 0
               [] v.t = "float" -> v.num # 0
               [] v.t = "str" -> v.s # <<>>
               [] v.t = "list" -> v.l # <<>>
               [] v.t = "obj" -> DOMAIN v.o # {}

\* Python ==: numbers (bool included) compare by value, everything else by
\* type and content
PyEq(a, b) == IF IsNumber(a) /\ IsNumber(b)
              THEN NumOf(a) * DenOf(b) = NumOf(b) * DenOf(a)
              ELSE a = b

\* type(v).__name__
TypeName(v) == CASE v.t = "null" -> "NoneType"
                 [] v.t = "bool" -> "bool"
                 [] v.t = "int" -> "int"
                 [] v.t = "float" -> "float"
                 [] v.t = "str" -> "str"
                 [] v.t = "list" -> "list"
                 [] v.t = "obj" -> "dict"

Digits == <<"0", "1", "2", "3", "4", "5", "6", "7", "8", "9">>

RECURSIVE NatStr(_)
NatStr(n) == IF n < 10 THEN <<Digits[n + 1]>>
             ELSE NatStr(n \div 10) \o <<Digits[(n % 10) + 1]>>

IntStr(n) == IF n < 0 THEN <<"-">> \o NatStr(-n) ELSE NatStr(n)

\* str(v) as interpolated by an f-string, for the scalars that reach one
PyStr(v) == CASE v.t = "null" -> <<"None">>
              [] v.t = "bool" -> (IF v.b THEN <<"True">> ELSE <<"False">>)
              [] v.t = "int" -> IntStr(v.n)
              [] v.t = "str" -> v.s

\* outcome of evaluating Python code: a value returned or an exception raised
Return(v) == [kind |-> "return", v |-> v]
Raise(exc, msg) == [kind |-> "raise", exc |-> exc, msg |-> msg]

UnsupportedOperand(op, a, b) ==
    Raise("TypeError", <<"unsupported operand type(s) for ", op, ": '",
                         TypeName(a), "' and '", TypeName(b), "'">>)

RECURSIVE Repeat(_, _)
Repeat(s, n) == IF n <= 0 THEN <<>> ELSE s \o Repeat(s, n - 1)

\* a + b
PyAdd(a, b) ==
    CASE IsNumber(a) /\ IsNumber(b) ->
            Return(MkNum(a.t = "float" \/ b.t = "float",
                         NumOf(a) * DenOf(b) + NumOf(b) * DenOf(a), DenOf(a) * DenOf(b)))
      [] a.t = "str" /\ b.t = "str" -> Return(FStr(a.s \o b.s))
      [] a.t = "str" /\ b.t # "str" ->
            Raise("TypeError", <<"can only concatenate str (not \"", TypeName(b), "\") to str">>)
      [] OTHER -> UnsupportedOperand("+", a, b)

\* a - b
PySub(a, b) ==
    IF IsNumber(a) /\ IsNumber(b)
    THEN Return(MkNum(a.t = "float" \/ b.t = "float",
                      NumOf(a) * DenOf(b) - NumOf(b) * DenOf(a), DenOf(a) * DenOf(b)))
    ELSE UnsupportedOperand("-", a, b)

\* a * b (a str times an int repeats the str)
PyMul(a, b) ==
    CASE IsNumber(a) /\ IsNumber(b) ->
            Return(MkNum(a.t = "float" \/ b.t = "float",
                         NumOf(a) * NumOf(b), DenOf(a) * DenOf(b)))
      [] a.t = "str" /\ IsIntLike(b) -> Return(FStr(Repeat(a.s, NumOf(b))))
      [] IsIntLike(a) /\ b.t = "str" -> Return(FStr(Repeat(b.s, NumOf(a))))
      [] a.t = "str" /\ b.t \in {"str", "float"} ->
            Raise("TypeError", <<"can't multiply sequence by non-int of type '", TypeName(b), "'">>)
      [] a.t = "float" /\ b.t = "str" ->
            Raise("TypeError", <<"can't multiply sequence by non-int of type '", TypeName(a), "'">>)
      [] OTHER -> UnsupportedOperand("*", a, b)

\* a / b (true division: always a float)
PyDiv(a, b) ==
    IF IsNumber(a) /\ IsNumber(b)
    THEN IF NumOf(b) = 0
         THEN Raise("ZeroDivisionError", <<"division by zero">>)
         ELSE Return(Float(NumOf(a) * DenOf(b), DenOf(a) * NumOf(b)))
    ELSE UnsupportedOperand("/", a, b)

RECURSIVE IntPow(_, _)
IntPow(b, e) == IF e = 0 THEN 1 ELSE b * IntPow(b, e - 1)

\* a ** b, for a whole-number exponent
PyPow(a, b) ==
    CASE IsNumber(a) /\ IsIntLike(b) ->
            LET e == NumOf(b) IN
            IF e >= 0
            THEN Return(MkNum(a.t = "float", IntPow(NumOf(a), e), IntPow(DenOf(a), e)))
            ELSE IF NumOf(a) = 0
                 THEN Raise("ZeroDivisionError", <<"0.0 cannot be raised to a negative power">>)
                 ELSE Return(Float(IntPow(DenOf(a), -e), IntPow(NumOf(a), -e)))
      [] ~IsNumber(a) \/ ~IsNumber(b) -> UnsupportedOperand("** or pow()", a, b)

NotSupported(op, a, b) ==
    Raise("TypeError", <<"'", op, "' not supported between instances of '",
                         TypeName(a), "' and '", TypeName(b), "'">>)

\* a < b and a <= b on numbers; any other pairing of the scalars raises
PyLt(a, b) ==
    CASE IsNumber(a) /\ IsNumber(b) -> Return(Bool(NumOf(a) * DenOf(b) < NumOf(b) * DenOf(a)))
      [] a.t # b.t /\ (~IsNumber(a) \/ ~IsNumber(b)) -> NotSupported("<", a, b)
      [] a.t = "null" /\ b.t = "null" -> NotSupported("<", a, b)

PyLe(a, b) ==
    CASE IsNumber(a) /\ IsNumber(b) -> Return(Bool(NumOf(a) * DenOf(b) <= NumOf(b) * DenOf(a)))
      [] a.t # b.t /\ (~IsNumber(a) \/ ~IsNumber(b)) -> NotSupported("<=", a, b)
      [] a.t = "null" /\ b.t = "null" -> NotSupported("<=", a, b)

\* continue with F(value) unless x raised
Then(x, F(_)) == IF x.kind = "raise" THEN x ELSE F(x.v)

----------------------------------------------------------------------------
(* jsonrpc_server/methods.py: the services.  Every method yields             *)
(* [out |-> what it returned or raised, st |-> the UserService state after]  *)
(* where st = [users |-> ..., next_id |-> ...].                               *)

Pure(out, st) == [out |-> out, st |-> st]

\* TaxService.calculate_tax(income, deductions=0, tax_rate=0.20)
calculate_tax(income, deductions, tax_rate) ==
    Then(PyLt(income, Num(0)), LAMBDA neg1:
    Then(IF neg1.b THEN Return(neg1) ELSE PyLt(deductions, Num(0)), LAMBDA neg:
    IF neg.b
    THEN Raise("ValueError", <<"Income and deductions must be non-negative">>)
    ELSE
    Then(PySub(income, deductions), LAMBDA diff:
    LET taxable_income == IF NumOf(diff) > 0 THEN diff ELSE Num(0) IN
    Then(PyMul(taxable_income, tax_rate), LAMBDA tax_amount:
    Then(PySub(income, tax_amount), LAMBDA net_income:
    Return(Obj([k \in {"income", "deductions", "taxable_income", "tax_rate",
                       "tax_amount", "net_income", "calculation_id", "calculated_at"} |->
        CASE k = "income" -> income
          [] k = "deductions" -> deductions
          [] k = "taxable_income" -> taxable_income
          [] k = "tax_rate" -> tax_rate
          [] k = "tax_amount" -> tax_amount
          [] k = "net_income" -> net_income
          [] k = "calculation_id" -> Uuid
          [] k = "calculated_at" -> Timestamp])))))))

\* the brackets of calculate_progressive_tax: (limit, rate), the rate in
\* hundredths; the last limit is float('inf')
brackets == << [inf |-> FALSE, limit |-> 10000, pct |-> 10],
               [inf |-> FALSE, limit |-> 40000, pct |-> 12],
               [inf |-> FALSE, limit |-> 85000, pct |-> 22],
               [inf |-> TRUE,  limit |-> 0,     pct |-> 24] >>

Pad3(n) == <<Digits[(n \div 100) + 1], Digits[((n \div 10) % 10) + 1], Digits[(n % 10) + 1]>>

\* f"{n:,.0f}" for a whole number n >= 0
RECURSIVE CommaStr(_)
CommaStr(n) == IF n < 1000 THEN NatStr(n)
               ELSE CommaStr(n \div 1000) \o <<",">> \o Pad3(n % 1000)

\* the for loop of calculate_progressive_tax from bracket i on, for a number
\* income; acc = [total_tax, previous_bracket, tax_breakdown]
RECURSIVE BracketLoop(_, _, _)
BracketLoop(income, i, acc) ==
    IF i > Len(brackets) THEN acc
    ELSE IF NumOf(income) <= acc.previous_bracket * DenOf(income) THEN acc
    ELSE
      LET br == brackets[i]
          below == br.inf \/ NumOf(income) <= br.limit * DenOf(income)
          upper == IF below THEN income ELSE Num(br.limit)      \* min(income, bracket_limit)
          taxable_in_bracket == PySub(upper, Num(acc.previous_bracket)).v
          tax_in_bracket == PyMul(taxable_in_bracket, Float(br.pct, 100)).v
          entry == Obj([k \in {"bracket", "rate", "taxable_income", "tax"} |->
              CASE k = "bracket" -> FStr(<<"$">> \o CommaStr(acc.previous_bracket) \o <<" - $">>
                                         \o CommaStr(NumOf(upper)))
                [] k = "rate" -> FStr(NatStr(br.pct) \o <<"%">>)
                [] k = "taxable_income" -> taxable_in_bracket
                [] k = "tax" -> tax_in_bracket])
          acc2 == [total_tax |-> PyAdd(acc.total_tax, tax_in_bracket).v,
                   previous_bracket |-> br.limit,
                   tax_breakdown |-> Append(acc.tax_breakdown, entry)]
      IN IF below THEN acc2 ELSE BracketLoop(income, i + 1, acc2)

\* the dict calculate_progressive_tax returns once the loop has left acc
progressive_result(income, acc) ==
    Obj([k \in {"income", "total_tax", "effective_rate", "net_income",
                "tax_breakdown", "calculation_id", "calculated_at"} |->
        CASE k = "income" -> income
          [] k = "total_tax" -> acc.total_tax
          [] k = "effective_rate" ->
                (IF NumOf(income) > 0 THEN PyDiv(acc.total_tax, income).v ELSE Num(0))
          [] k = "net_income" -> PySub(income, acc.total_tax).v
          [] k = "tax_breakdown" -> List(acc.tax_breakdown)
          [] k = "calculation_id" -> Uuid
          [] k = "calculated_at" -> Timestamp])

\* TaxService.calculate_progressive_tax(income)
calculate_progressive_tax(income) ==
    Then(PyLe(income, Num(0)), LAMBDA first:
    Return(progressive_result(income,
        BracketLoop(income, 1,
            [total_tax |-> Num(0), previous_bracket |-> 0, tax_breakdown |-> <<>>]))))

\* key in self.users: a number equal to a stored id is that key (True == 1,
\* 1.0 == 1); a list or a dict cannot be hashed
Unhashable(v) == v.t \in {"list", "obj"}
UnhashableType(v) == Raise("TypeError", <<"unhashable type: '", TypeName(v), "'">>)
InUsers(st, v) == IsNumber(v) /\ DenOf(v) = 1 /\ NumOf(v) \in DOMAIN st.users

UserNotFound(user_id) ==
    Raise("ValueError", <<"User with ID ">> \o PyStr(user_id) \o <<" not found">>)

\* UserService.create_user(name, email, age=None)
create_user(st, name, email, age) ==
    IF ~Truthy(name) \/ ~Truthy(email)
    THEN Pure(Raise("ValueError", <<"Name and email are required">>), st)
    ELSE IF \E i \in DOMAIN st.users : PyEq(st.users[i]["email"], email)
    THEN Pure(Raise("ValueError",
                    <<"User with email ">> \o PyStr(email) \o <<" already exists">>), st)
    ELSE
      LET user_id == st.next_id
          user == [k \in {"id", "name", "email", "age", "created_at", "updated_at"} |->
                     CASE k = "id" -> Num(user_id)
                       [] k = "name" -> name
                       [] k = "email" -> email
                       [] k = "age" -> age
                       [] k = "created_at" -> Timestamp
                       [] k = "updated_at" -> Timestamp]
      IN [out |-> Return(Obj(user)),
          st |-> [users |-> (user_id :> user) @@ st.users, next_id |-> st.next_id + 1]]

\* a lookup that takes the record out of the store (self.users.pop(user_id))
get_user_by_id_pop(st, user_id) ==
    IF Unhashable(user_id) THEN Pure(UnhashableType(user_id), st)
    ELSE IF ~InUsers(st, user_id) THEN Pure(UserNotFound(user_id), st)
    ELSE [out |-> Return(Obj(st.users[NumOf(user_id)])),
          st |-> [st EXCEPT !.users = [k \in DOMAIN st.users \ {NumOf(user_id)} |-> st.users[k]]]]

\* UserService.get_user_by_id(user_id)
get_user_by_id(st, user_id) ==
    IF Unhashable(user_id) THEN Pure(UnhashableType(user_id), st)
    ELSE IF ~InUsers(st, user_id) THEN Pure(UserNotFound(user_id), st)
    ELSE Pure(Return(Obj(st.users[NumOf(user_id)])), st)

\* an update that writes every key of kwargs into the record
update_user_any_key(st, user_id, kwargs) ==
    IF Unhashable(user_id) THEN Pure(UnhashableType(user_id), st)
    ELSE IF ~InUsers(st, user_id) THEN Pure(UserNotFound(user_id), st)
    ELSE [out |-> Return(Obj([k \in DOMAIN st.users[NumOf(user_id)] \cup DOMAIN kwargs |->
                                IF k \in DOMAIN kwargs THEN kwargs[k]
                                ELSE st.users[NumOf(user_id)][k]])),
          st |-> [st EXCEPT !.users[NumOf(user_id)] =
                     [k \in DOMAIN st.users[NumOf(user_id)] \cup DOMAIN kwargs |->
                        IF k \in DOMAIN kwargs THEN kwargs[k]
                        ELSE st.users[NumOf(user_id)][k]]]]

\* UserService.update_user(user_id, **kwargs)
update_user(st, user_id, kwargs) ==
    IF Unhashable(user_id) THEN Pure(UnhashableType(user_id), st)
    ELSE IF ~InUsers(st, user_id) THEN Pure(UserNotFound(user_id), st)
    ELSE
      LET i == NumOf(user_id)
          old == st.users[i]
          user == [k \in DOMAIN old |->
                     IF k \in {"name", "email", "age"} /\ k \in DOMAIN kwargs THEN kwargs[k]
                     ELSE IF k = "updated_at" THEN Timestamp
                     ELSE old[k]]
      IN [out |-> Return(Obj(user)),
          st |-> [st EXCEPT !.users = [st.users EXCEPT ![i] = user]]]

\* a delete that confirms the deletion and keeps the record
delete_user_keep(st, user_id) ==
    IF Unhashable(user_id) THEN Pure(UnhashableType(user_id), st)
    ELSE IF ~InUsers(st, user_id) THEN Pure(UserNotFound(user_id), st)
    ELSE Pure(Return(Obj("message" :>
                 FStr(<<"User ">> \o PyStr(user_id) \o <<" deleted successfully">>))), st)

\* UserService.delete_user(user_id)
delete_user(st, user_id) ==
    IF Unhashable(user_id) THEN Pure(UnhashableType(user_id), st)
    ELSE IF ~InUsers(st, user_id) THEN Pure(UserNotFound(user_id), st)
    ELSE
      LET i == NumOf(user_id) IN
      [out |-> Return(Obj("message" :>
                   FStr(<<"User ">> \o PyStr(user_id) \o <<" deleted successfully">>))),
       st |-> [st EXCEPT !.users = [k \in DOMAIN st.users \ {i} |-> st.users[k]]]]

\* the stored ids in insertion order (ids are handed out in increasing order)
RECURSIVE IdsInOrder(_)
IdsInOrder(ids) ==
    IF ids = {} THEN <<>>
    ELSE LET m == CHOOSE x \in ids : \A y \in ids : x <= y
         IN <<m>> \o IdsInOrder(ids \ {m})

\* UserService.list_users()
list_users(st) ==
    LET ids == IdsInOrder(DOMAIN st.users)
    IN Pure(Return(List([i \in 1..Len(ids) |-> Obj(st.users[ids[i]])])), st)

\* the dict every CalculationService operation returns
CalcResult(operation, a, b, result) ==
    Obj([k \in {"operation", "operands", "result", "calculation_id", "calculated_at"} |->
        CASE k = "operation" -> Str(operation)
          [] k = "operands" -> List(<<a, b>>)
          [] k = "result" -> result
          [] k = "calculation_id" -> Uuid
          [] k = "calculated_at" -> Timestamp])

\* CalculationService.add / subtract / multiply / divide / power
add(a, b) == Then(PyAdd(a, b), LAMBDA r: Return(CalcResult("addition", a, b, r)))
subtract(a, b) == Then(PySub(a, b), LAMBDA r: Return(CalcResult("subtraction", a, b, r)))
multiply(a, b) == Then(PyMul(a, b), LAMBDA r: Return(CalcResult("multiplication", a, b, r)))
\* a division that does not test the divisor
divide_unchecked(a, b) == Then(PyDiv(a, b), LAMBDA r: Return(CalcResult("division", a, b, r)))

divide(a, b) ==
    IF PyEq(b, Num(0))
    THEN Raise("ValueError", <<"Division by zero is not allowed">>)
    ELSE Then(PyDiv(a, b), LAMBDA r: Return(CalcResult("division", a, b, r)))
power(base, exponent) ==
    Then(PyPow(base, exponent), LAMBDA r: Return(CalcResult("power", base, exponent, r)))

\* dict.get(key) on a JSON object
Get(o, key) == IF key \in DOMAIN o THEN o[key] ELSE Null

\* an entry for a failed operation that does not say so
ErrorEntryUnmarked(msg, operation, a, b) ==
    Obj([k \in {"operation", "operands"} |->
        CASE k = "operation" -> operation
          [] k = "operands" -> List(<<a, b>>)])

\* the entry batch_calculate appends for an operation that failed
ErrorEntry(msg, operation, a, b) ==
    Obj([k \in {"error", "operation", "operands"} |->
        CASE k = "error" -> FStr(msg)
          [] k = "operation" -> operation
          [] k = "operands" -> List(<<a, b>>)])

\* one pass of the loop body of batch_calculate on a dict op: the entry it appends
BatchEntry(op) ==
    LET operation == Get(op, "operation")
        a == Get(op, "a")
        b == Get(op, "b")
        r == CASE PyEq(operation, Str("add")) -> add(a, b)
               [] PyEq(operation, Str("subtract")) -> subtract(a, b)
               [] PyEq(operation, Str("multiply")) -> multiply(a, b)
               [] PyEq(operation, Str("divide")) -> divide(a, b)
               [] PyEq(operation, Str("power")) -> power(a, b)
               [] OTHER -> Return(ErrorEntry(<<"Unknown operation: ">> \o PyStr(operation),
                                             operation, a, b))
    IN IF a = Null \/ b = Null
       THEN ErrorEntry(<<"Missing operands 'a' or 'b'">>, operation, a, b)
       ELSE IF ~IsNumber(a) \/ ~IsNumber(b)
       THEN ErrorEntry(<<"Operands must be numbers">>, operation, a, b)
       ELSE IF r.kind = "raise" THEN ErrorEntry(r.msg, operation, a, b)
       ELSE r.v

NoAttributeGet(v) ==
    Raise("AttributeError", <<"'", TypeName(v), "' object has no attribute 'get'">>)

\* the for loop of batch_calculate over a list: an element that is not a dict
\* fails in op.get, and fails again in the except clause, which ends the call
RECURSIVE BatchLoop(_, _, _)
BatchLoop(ops, i, results) ==
    IF i > Len(ops) THEN Return(List(results))
    ELSE IF ops[i].t # "obj" THEN NoAttributeGet(ops[i])
    ELSE BatchLoop(ops, i + 1, Append(results, BatchEntry(ops[i].o)))

\* CalculationService.batch_calculate(operations)
batch_calculate(operations) ==
    CASE operations.t = "list" -> BatchLoop(operations.l, 1, <<>>)
      [] operations.t = "str" ->
            IF operations.s = <<>> THEN Return(List(<<>>)) ELSE NoAttributeGet(Str("c"))
      [] operations.t = "obj" ->
            IF DOMAIN operations.o = {} THEN Return(List(<<>>)) ELSE NoAttributeGet(Str("k"))
      [] OTHER -> Raise("TypeError", <<"'", TypeName(operations), "' object is not iterable">>)

supported_methods ==
    << "calculate_tax", "calculate_progressive_tax", "create_user", "get_user_by_id",
       "update_user", "delete_user", "list_users", "add", "subtract", "multiply",
       "divide", "power", "batch_calculate", "get_server_info", "ping" >>

\* SystemService.get_server_info()
get_server_info ==
    Return(Obj([k \in {"server_type", "version", "timestamp", "status", "supported_methods"} |->
        CASE k = "server_type" -> Str("JSON-RPC")
          [] k = "version" -> Str("1.0.0")
          [] k = "timestamp" -> Timestamp
          [] k = "status" -> Str("running")
          [] k = "supported_methods" ->
                List([i \in 1..Len(supported_methods) |-> Str(supported_methods[i])])]))

\* SystemService.ping()
ping == Return(Obj([k \in {"message", "timestamp"} |->
                      IF k = "message" THEN Str("pong") ELSE Timestamp]))

----------------------------------------------------------------------------
(* Python's binding of the positional and keyword arguments of a call to    *)
(* the parameters of a method (self excluded): names in order, the first     *)
(* `required` of them without a default, varkw when the method also takes    *)
(* arbitrary keyword arguments.                                              *)

Signature(names, required, varkw, qualname) ==
    [names |-> names, required |-> required, varkw |-> varkw, qualname |-> qualname]

\* the keys of method_map in JSONRPCServer._call_method (the function each key
\* maps to is the method of the same name, run by Call below)
method_map ==
    { "calculate_tax", "calculate_progressive_tax",
      "create_user", "get_user_by_id", "update_user", "delete_user", "list_users",
      "add", "subtract", "multiply", "divide", "power", "batch_calculate",
      "get_server_info", "ping" }

signatures ==
    [m \in method_map |->
        CASE m = "calculate_tax" ->
                Signature(<<"income", "deductions", "tax_rate">>, 1, FALSE, "TaxService.calculate_tax")
          [] m = "calculate_progressive_tax" ->
                Signature(<<"income">>, 1, FALSE, "TaxService.calculate_progressive_tax")
          [] m = "create_user" ->
                Signature(<<"name", "email", "age">>, 2, FALSE, "UserService.create_user")
          [] m = "get_user_by_id" ->
                Signature(<<"user_id">>, 1, FALSE, "UserService.get_user_by_id")
          [] m = "update_user" ->
                Signature(<<"user_id">>, 1, TRUE, "UserService.update_user")
          [] m = "delete_user" ->
                Signature(<<"user_id">>, 1, FALSE, "UserService.delete_user")
          [] m = "list_users" -> Signature(<<>>, 0, FALSE, "UserService.list_users")
          [] m = "add" -> Signature(<<"a", "b">>, 2, FALSE, "CalculationService.add")
          [] m = "subtract" -> Signature(<<"a", "b">>, 2, FALSE, "CalculationService.subtract")
          [] m = "multiply" -> Signature(<<"a", "b">>, 2, FALSE, "CalculationService.multiply")
          [] m = "divide" -> Signature(<<"a", "b">>, 2, FALSE, "CalculationService.divide")
          [] m = "power" ->
                Signature(<<"base", "exponent">>, 2, FALSE, "CalculationService.power")
          [] m = "batch_calculate" ->
                Signature(<<"operations">>, 1, FALSE, "CalculationService.batch_calculate")
          [] m = "get_server_info" -> Signature(<<>>, 0, FALSE, "SystemService.get_server_info")
          [] m = "ping" -> Signature(<<>>, 0, FALSE, "SystemService.ping")]

Plural(n, word) == IF n = 1 THEN <<word>> ELSE <<word, "s">>

RECURSIVE QuotedNames(_)
QuotedNames(ns) ==
    IF Len(ns) = 1 THEN <<"'", ns[1], "'">>
    ELSE <<"'", ns[1], "'", " and ">> \o QuotedNames(Tail(ns))

\* the names of sig.names, in order, that are in the set want
RECURSIVE NamesIn(_, _)
NamesIn(names, want) ==
    IF names = <<>> THEN <<>>
    ELSE (IF Head(names) \in want THEN <<Head(names)>> ELSE <<>>) \o NamesIn(Tail(names), want)

\* the arguments bound to the parameters: [a |-> name -> value, extra |-> the kwargs dict],
\* or the TypeError the call raises before the body runs
BindArguments(sig, args, kwargs) ==
    LET n == Len(sig.names)
        named == {sig.names[i] : i \in 1..n}
        unexpected == DOMAIN kwargs \ named
        given == {sig.names[i] : i \in 1..Len(args)} \cup (DOMAIN kwargs \cap named)
        missing == {sig.names[i] : i \in 1..sig.required} \ given
        takes == (IF sig.required < n
                  THEN <<"from ">> \o NatStr(sig.required + 1) \o <<" to ">>
                  ELSE <<>>) \o NatStr(n + 1)
    IN  IF Len(args) > n
        THEN Raise("TypeError", <<sig.qualname, "() takes ">> \o takes
                     \o <<" positional ">> \o Plural(n + 1, "argument") \o <<" but ">>
                     \o NatStr(Len(args) + 1) \o <<" were given">>)
        ELSE IF "self" \in DOMAIN kwargs
        THEN Raise("TypeError", <<sig.qualname, "() got multiple values for argument 'self'">>)
        ELSE IF unexpected # {} /\ ~sig.varkw
        THEN Raise("TypeError", <<sig.qualname, "() got an unexpected keyword argument '",
                                  CHOOSE k \in unexpected : TRUE, "'">>)
        ELSE IF missing # {}
        THEN Raise("TypeError", <<sig.qualname, "() missing ">> \o NatStr(Cardinality(missing))
                     \o <<" required positional ">> \o Plural(Cardinality(missing), "argument")
                     \o <<": ">> \o QuotedNames(NamesIn(sig.names, missing)))
        ELSE Return([a |-> [k \in given |->
                              IF k \in DOMAIN kwargs THEN kwargs[k]
                              ELSE args[CHOOSE i \in 1..Len(args) : sig.names[i] = k]],
                     extra |-> [k \in unexpected |-> kwargs[k]]])

\* the value of parameter name, or its default
Arg(b, name, default) == IF name \in DOMAIN b.a THEN b.a[name] ELSE default

\* the function method_map[method] run on the bound arguments b
Run(st, method, b) ==
    CASE method = "calculate_tax" ->
            Pure(calculate_tax(b.a["income"], Arg(b, "deductions", Num(0)),
                               Arg(b, "tax_rate", Float(20, 100))), st)
      [] method = "calculate_progressive_tax" ->
            Pure(calculate_progressive_tax(b.a["income"]), st)
      [] method = "create_user" ->
            create_user(st, b.a["name"], b.a["email"], Arg(b, "age", Null))
      [] method = "get_user_by_id" -> get_user_by_id(st, b.a["user_id"])
      [] method = "update_user" -> update_user(st, b.a["user_id"], b.extra)
      [] method = "delete_user" -> delete_user(st, b.a["user_id"])
      [] method = "list_users" -> list_users(st)
      [] method = "add" -> Pure(add(b.a["a"], b.a["b"]), st)
      [] method = "subtract" -> Pure(subtract(b.a["a"], b.a["b"]), st)
      [] method = "multiply" -> Pure(multiply(b.a["a"], b.a["b"]), st)
      [] method = "divide" -> Pure(divide(b.a["a"], b.a["b"]), st)
      [] method = "power" -> Pure(power(b.a["base"], b.a["exponent"]), st)
      [] method = "batch_calculate" -> Pure(batch_calculate(b.a["operations"]), st)
      [] method = "get_server_info" -> Pure(get_server_info, st)
      [] method = "ping" -> Pure(ping, st)

\* the call once the arguments are bound: the TypeError of the binding, or
\* what the function does
Invoke(st, method, bound) ==
    IF bound.kind = "raise" THEN Pure(bound, st) ELSE Run(st, method, bound.v)

\* method_map[method] called with args and kwargs
Call(st, method, args, kwargs) ==
    Invoke(st, method, BindArguments(signatures[method], args, kwargs))

----------------------------------------------------------------------------
(* jsonrpc_server/server.py *)

\* class JSONRPCError
PARSE_ERROR == -32700
INVALID_REQUEST == -32600
METHOD_NOT_FOUND == -32601
INVALID_PARAMS == -32602
INTERNAL_ERROR == -32603

\* an error response that also carries a null result member
create_error_response_with_result(request_id, code, message) ==
    Obj([k \in {"jsonrpc", "error", "result", "id"} |->
        CASE k = "jsonrpc" -> Str("2.0")
          [] k = "error" -> Obj([f \in {"code", "message"} |->
                                   IF f = "code" THEN Num(code) ELSE FStr(message)])
          [] k = "result" -> Null
          [] k = "id" -> request_id])

\* JSONRPCServer._create_error_response
create_error_response(request_id, code, message) ==
    Obj([k \in {"jsonrpc", "error", "id"} |->
        CASE k = "jsonrpc" -> Str("2.0")
          [] k = "error" -> Obj([f \in {"code", "message"} |->
                                   IF f = "code" THEN Num(code) ELSE FStr(message)])
          [] k = "id" -> request_id])

\* the success envelope built in _process_single_request
result_response(result, request_id) ==
    Obj([k \in {"jsonrpc", "result", "id"} |->
        CASE k = "jsonrpc" -> Str("2.0")
          [] k = "result" -> result
          [] k = "id" -> request_id])

\* the fragments of the model's texts whose lower-case form contains "not found"
\* (no text of the model has the words split over two fragments)
NotFoundFragments == {"' not found", " not found"}

\* "not found" in str(e).lower()
SaysNotFound(msg) == \E i \in 1..Len(msg) : msg[i] \in NotFoundFragments

\* the record of one call made through method_map
Invocation(method, args, kwargs) == [method |-> method, args |-> args, kwargs |-> kwargs]

\* the elements of a list handed over last first
positional_reversed(params) ==
    IF params.t = "list" THEN [i \in 1..Len(params.l) |-> params.l[Len(params.l) + 1 - i]]
    ELSE <<>>

\* the arguments func is called with: func(*params) for a list, func(**params)
\* for a dict, func() otherwise
positional(params) == IF params.t = "list" THEN params.l ELSE <<>>
keyword(params) == IF params.t = "obj" THEN params.o ELSE EmptyMap

\* the except clauses of _call_method: a TypeError or a ValueError of the call
\* is raised again as an Exception that names the method
reraise(name, out) ==
    CASE out.kind = "raise" /\ out.exc = "TypeError" ->
            Raise("Exception", <<"Invalid parameters for method '", name, "': ">> \o out.msg)
      [] out.kind = "raise" /\ out.exc = "ValueError" ->
            Raise("Exception", <<"Invalid parameter values for method '", name, "': ">>
                               \o out.msg)
      [] OTHER -> out

\* a dispatcher that starts from an empty service when a handler raised
call_outcome_forgetful(name, params, r) ==
    [out |-> reraise(name, r.out),
     st |-> IF r.out.kind = "raise" THEN [users |-> [i \in {} |-> EmptyMap], next_id |-> 1]
            ELSE r.st,
     called |-> <<Invocation(name, positional(params), keyword(params))>>]

\* the try block of _call_method for the registered method name, r being what
\* the call did
call_outcome(name, params, r) ==
    [out |-> reraise(name, r.out), st |-> r.st,
     called |-> <<Invocation(name, positional(params), keyword(params))>>]

\* JSONRPCServer._call_method(method, params):
\* [out, st] as for the services, and called: the invocations made
call_method(st, method, params) ==
    IF ~(method.t = "str" /\ Len(method.s) = 1 /\ method.s[1] \in method_map)
    THEN [out |-> Raise("Exception", <<"Method '">> \o PyStr(method) \o <<"' not found">>),
          st |-> st, called |-> <<>>]
    ELSE call_outcome(method.s[1], params,
                      Call(st, method.s[1], positional(params), keyword(params)))

\* a request whose id is null taken for a notification (request_id is None)
is_notification_null_id(data) == Get(data.o, "id") = Null

\* is_notification = 'id' not in data
is_notification(data) == "id" \notin DOMAIN data.o

\* a version test that lets a request without jsonrpc member through
lenient_version(jsonrpc) == jsonrpc = Null \/ PyEq(jsonrpc, Str("2.0"))

\* the test jsonrpc != '2.0', negated
valid_version(jsonrpc) == PyEq(jsonrpc, Str("2.0"))

\* a method test without the isinstance check
truthy_method(method) == Truthy(method)

\* the test not method or not isinstance(method, str), negated
valid_method(method) == Truthy(method) /\ method.t = "str"

\* what a request that fails validation is answered with
invalid_request_response(notification, request_id) ==
    IF ~notification
    THEN create_error_response(request_id, INVALID_REQUEST, <<"Invalid Request">>)
    ELSE Null

\* every exception reported as an internal error
error_code_internal(msg) == INTERNAL_ERROR

\* the code chosen for an exception with message msg
error_code(msg) == IF SaysNotFound(msg) THEN METHOD_NOT_FOUND ELSE INTERNAL_ERROR

\* an except clause that lets the exception through to the caller
exception_propagates(notification, request_id, msg) == [t |-> "exception", s |-> msg]

\* an except clause that answers notifications too
exception_response_always(notification, request_id, msg) ==
    create_error_response(request_id, error_code(msg), msg)

\* the except clause of _process_single_request
exception_response(notification, request_id, msg) ==
    IF ~notification
    THEN create_error_response(request_id, error_code(msg), msg)
    ELSE Null

\* the try block of _process_single_request, r being what _call_method did
call_response(notification, request_id, r) ==
    [response |-> IF r.out.kind = "return"
                  THEN (IF notification THEN Null ELSE result_response(r.out.v, request_id))
                  ELSE exception_response(notification, request_id, r.out.msg),
     st |-> r.st, called |-> r.called]

\* a dispatcher that drops notifications once they pass validation
process_single_request_unnotified(st, data) ==
    IF data.t # "obj"
    THEN [response |-> create_error_response(Null, INVALID_REQUEST, <<"Invalid Request">>),
          st |-> st, called |-> <<>>]
    ELSE
      LET jsonrpc == Get(data.o, "jsonrpc")
          method == Get(data.o, "method")
          params == IF "params" \in DOMAIN data.o THEN data.o["params"] ELSE List(<<>>)
          request_id == Get(data.o, "id")
          notification == is_notification(data)
      IN  IF ~valid_version(jsonrpc) \/ ~valid_method(method)
          THEN [response |-> invalid_request_response(notification, request_id),
                st |-> st, called |-> <<>>]
          ELSE IF notification
          THEN [response |-> Null, st |-> st, called |-> <<>>]
          ELSE call_response(notification, request_id, call_method(st, method, params))

\* JSONRPCServer._process_single_request(data):
\* [response |-> the dict returned, or Null for None, st, called]
process_single_request(st, data) ==
    IF data.t # "obj"
    THEN [response |-> create_error_response(Null, INVALID_REQUEST, <<"Invalid Request">>),
          st |-> st, called |-> <<>>]
    ELSE
      LET jsonrpc == Get(data.o, "jsonrpc")
          method == Get(data.o, "method")
          params == IF "params" \in DOMAIN data.o THEN data.o["params"] ELSE List(<<>>)
          request_id == Get(data.o, "id")
          notification == is_notification(data)
      IN  IF ~valid_version(jsonrpc) \/ ~valid_method(method)
          THEN [response |-> invalid_request_response(notification, request_id),
                st |-> st, called |-> <<>>]
          ELSE call_response(notification, request_id, call_method(st, method, params))

\* an HTTP response: jsonify(v) and a dict returned from the view are a 200
\* with v as JSON body, ('', 204) has no body
Response(status, payload) == [status |-> status, body |-> payload]
jsonify(v) == Response(200, v)
NoContent == Response(204, [t |-> "empty"])

\* responses collected at the front of the list
collect_front(responses, response) ==
    IF response # Null THEN <<response>> \o responses ELSE responses

\* if response is not None: responses.append(response)
collect(responses, response) ==
    IF response # Null THEN Append(responses, response) ELSE responses

\* one pass of the for loop of _handle_request, r being what
\* _process_single_request did for the item
batch_pass(acc, r) ==
    [responses |-> collect(acc.responses, r.response), st |-> r.st,
     called |-> acc.called \o r.called]

\* the for loop of _handle_request over the items of a batch from item i on;
\* acc = [responses, st, called] so far
RECURSIVE BatchResponses(_, _, _)
BatchResponses(acc, items, i) ==
    IF i > Len(items) THEN acc
    ELSE BatchResponses(batch_pass(acc, process_single_request(acc.st, items[i])),
                        items, i + 1)

\* a batch reply that sends the list even when it is empty
batch_reply_always(responses) == jsonify(List(responses))

\* jsonify(responses) if responses else ('', 204)
batch_reply(responses) ==
    IF responses # <<>> THEN jsonify(List(responses)) ELSE NoContent

\* jsonify(response) if response is not None else ('', 204)
single_reply(response) ==
    IF response # Null THEN jsonify(response) ELSE NoContent

\* a body that cannot be decoded treated like a decoded value that is not an
\* object
undecodable_as_invalid(st, b) ==
    [http |-> jsonify(create_error_response(Null, INVALID_REQUEST, <<"Invalid Request">>)),
     st |-> st, called |-> <<>>]

\* the answer to a body get_json() cannot decode or decodes to None
parse_error(st, b) ==
    [http |-> jsonify(create_error_response(Null, PARSE_ERROR, <<"Parse error">>)),
     st |-> st, called |-> <<>>]

\* what _handle_request returns for a batch and for a single request
batch_result(r) == [http |-> batch_reply(r.responses), st |-> r.st, called |-> r.called]
single_result(r) == [http |-> single_reply(r.response), st |-> r.st, called |-> r.called]

\* JSONRPCServer._handle_request for the POST body b, where b.decodable tells
\* whether request.get_json() could decode it and b.data is the decoded value:
\* [http |-> the response, st, called].  (The outer except clause is not
\* modelled: nothing in the try block raises on the values of the model.)
handle_request(st, b) ==
    IF ~b.decodable \/ b.data = Null
    THEN parse_error(st, b)
    ELSE IF b.data.t = "list"
    THEN batch_result(BatchResponses([responses |-> <<>>, st |-> st, called |-> <<>>],
                                     b.data.l, 1))
    ELSE single_result(process_single_request(st, b.data))

----------------------------------------------------------------------------
(* The requests the model sends *)

MaxBatch == 2       \* longest batch sent
MaxNextId == 2      \* requests that would push next_id beyond this are not sent

\* a field left out of a request object
Absent == [t |-> "absent"]

\* the JSON object with the given fields, the Absent ones left out
Fields(f) == Obj([k \in {x \in DOMAIN f : f[x] # Absent} |-> f[k]])

Request(jsonrpc, method, params, id) ==
    Fields([k \in {"jsonrpc", "method", "params", "id"} |->
        CASE k = "jsonrpc" -> jsonrpc
          [] k = "method" -> method
          [] k = "params" -> params
          [] k = "id" -> id])

Named2(k1, v1, k2, v2) == Obj((k1 :> v1) @@ (k2 :> v2))
Op(operation, a, b) == Obj(("operation" :> Str(operation)) @@ ("a" :> a) @@ ("b" :> b))

Ann == Str("Ann")
Bob == Str("Bob")
MailA == Str("a@x.io")
MailB == Str("b@x.io")

JsonrpcValues == {Absent, Str("2.0"), Str("1.0"), Num(2)}
IdValues == {Absent, Num(1), Str("a"), Null}
MethodValues == {Absent, Num(1), Str(""), Str("nope"), Str("ping"), Str("create_user")}

\* every combination of version, method and id: without params, and
\* create_user also with valid params
EnvelopeRequests ==
    { Request(j, m, Absent, i) : j \in JsonrpcValues, m \in MethodValues, i \in IdValues }
        \cup { Request(j, Str("create_user"), List(<<Ann, MailA>>), i) :
                   j \in JsonrpcValues, i \in IdValues }

\* params tried on each registered method: well-formed ones, ones of the wrong
\* shape, and ones the method rejects
ParamsOf(m) ==
    CASE m = "ping" -> {Obj(EmptyMap), Null, Num(5), Obj("a" :> Num(1)), List(<<Num(1)>>)}
      [] m = "get_server_info" -> {Absent, List(<<>>)}
      [] m = "list_users" -> {Absent, Str("all")}
      [] m = "calculate_tax" ->
            { List(<<Num(2)>>), List(<<Num(2), Num(1)>>), List(<<Num(1), Num(2)>>),
              Named2("income", Num(2), "tax_rate", Num(1)), List(<<Num(-1)>>),
              List(<<Num(2), Num(-1)>>), List(<<Null>>), List(<<Num(2), Num(0), Str("a")>>),
              Absent, Named2("income", Num(2), "rate", Num(1)) }
      [] m = "calculate_progressive_tax" ->
            { List(<<Num(2)>>), List(<<Num(0)>>), List(<<Num(50000)>>), List(<<Str("a")>>) }
      [] m = "create_user" ->
            { Named2("name", Ann, "email", MailA), List(<<Str(""), MailA>>),
              List(<<Ann, Null>>), List(<<Ann>>), List(<<Ann, MailA, Num(30), Num(1)>>) }
      [] m = "get_user_by_id" ->
            { List(<<Num(1)>>), List(<<Num(2)>>), Obj("user_id" :> Num(1)), List(<<Bool(TRUE)>>),
              List(<<Str("1")>>), List(<<List(<<Num(1)>>)>>), Absent }
      [] m = "update_user" ->
            { Named2("user_id", Num(1), "email", MailB), Named2("user_id", Num(2), "email", MailB),
              Named2("user_id", Num(1), "id", Num(9)),
              List(<<Num(1), Bob>>), Obj("name" :> Bob) }
      [] m = "delete_user" ->
            { List(<<Num(1)>>), List(<<Num(2)>>), Obj("user_id" :> Num(1)) }
      [] m = "add" ->
            { List(<<Num(1), Num(2)>>), Named2("a", Num(10), "b", Num(5)), List(<<Num(1), Null>>),
              List(<<Str("a"), Str("b")>>), List(<<Num(1)>>) }
      [] m = "subtract" -> { List(<<Num(2), Num(1)>>), List(<<Str("a"), Num(1)>>) }
      [] m = "multiply" -> { List(<<Num(2), Num(2)>>), List(<<Str("a"), Num(2)>>) }
      [] m = "divide" ->
            { List(<<Num(1), Num(2)>>), List(<<Num(1), Num(0)>>), Named2("a", Num(1), "b", Num(0)),
              List(<<Num(1), Str("a")>>), List(<<Null, Bool(FALSE)>>) }
      [] m = "power" ->
            { List(<<Num(2), Num(3)>>), List(<<Num(2), Num(-1)>>), List(<<Num(0), Num(-1)>>) }
      [] m = "batch_calculate" ->
            { List(<< List(<< Op("add", Num(1), Num(2)), Op("divide", Num(1), Num(0)),
                              Op("root", Num(1), Num(0)), Op("add", Str("1"), Num(0)),
                              Obj(EmptyMap), Op("power", Num(0), Num(-1)),
                              Op("multiply", Num(2), Num(3)) >>) >>),
              List(<<Num(5)>>), List(<<List(<<Num(5)>>)>>), Obj("operations" :> List(<<>>)),
              List(<<Str("")>>) }

\* calls and notifications of every registered method
HandlerRequests ==
    UNION { { Request(Str("2.0"), Str(m), p, i) : p \in ParamsOf(m), i \in {Absent, Num(1)} } :
            m \in method_map }

\* decoded values that are not JSON objects
Scalars == {Null, Num(5), Num(0), Str("ping"), Bool(TRUE)}

\* the entries batches are made of: notifications and calls, valid and not,
\* with ids that tell the calls apart
BatchEntries ==
    { Request(Str("2.0"), Str("add"), Named2("a", Num(1), "b", Num(2)), Num(5)),
      Request(Str("2.0"), Str("create_user"), List(<<Ann, MailA>>), Str("a")),
      Request(Str("2.0"), Str("delete_user"), List(<<Num(1)>>), Absent),
      Request(Str("2.0"), Str("get_user_by_id"), List(<<Num(1)>>), Num(7)),
      Request(Str("1.0"), Str("ping"), Absent, Null),
      Num(5) }

RECURSIVE SeqsUpTo(_, _)
SeqsUpTo(S, n) ==
    IF n = 0 THEN {<<>>}
    ELSE LET shorter == SeqsUpTo(S, n - 1)
         IN shorter \cup {Append(q, x) : q \in shorter, x \in S}

Batches ==
    {List(q) : q \in SeqsUpTo(BatchEntries, MaxBatch)} \cup {List(<<v>>) : v \in Scalars}

Decoded(v) == [decodable |-> TRUE, data |-> v]
Undecodable == [decodable |-> FALSE, data |-> Null]

\* the POST bodies sent to /jsonrpc
Bodies ==
    {Undecodable}
        \cup {Decoded(v) : v \in EnvelopeRequests \cup HandlerRequests \cup Scalars \cup Batches}

----------------------------------------------------------------------------
(* The server *)

NoBody == [decodable |-> FALSE, data |-> [t |-> "none"]]

\* TaxCalculationResource.__init__ and CalculationResource.__init__
NoCalculations == [calculations |-> [i \in {} |-> EmptyMap], next_id |-> 1]

\* no call made yet
NoCall == [op |-> "none"]

\* the threads that call create_user on one UserService
Threads == {1, 2}

\* the frame of a thread that is not in a call
Idle == [pc |-> "idle"]

\* JSONRPCServer.__init__ / UserService.__init__; no request handled yet
Init ==
    /\ users = [i \in {} |-> EmptyMap]
    /\ next_id = 1
    /\ body = NoBody
    /\ http = Response(0, [t |-> "empty"])
    /\ invoked = <<>>
    /\ last_call = NoCall
    /\ last_out = NoCall
    /\ live = {}
    /\ created = {}
    /\ rest_users = [i \in {} |-> EmptyMap]
    /\ rest_next_id = 1
    /\ client_request_id = 1
    /\ sent_ids = {}
    /\ frames = [t \in Threads |-> Idle]
    /\ key_order = <<>>
    /\ tax_store = NoCalculations
    /\ calc_store = NoCalculations

\* POST /jsonrpc with body b: handle_jsonrpc, i.e. _handle_request
HandleRequest(b) ==
    \E r \in {handle_request([users |-> users, next_id |-> next_id], b)} :
       /\ r.st.next_id <= MaxNextId
       /\ users' = r.st.users
       /\ next_id' = r.st.next_id
       /\ body' = b
       /\ http' = r.http
       /\ invoked' = r.called
       /\ UNCHANGED <<store_vars, client_vars, race_vars, calc_vars>>

Next == \E b \in Bodies : HandleRequest(b)

Spec == Init /\ [][Next]_vars

----------------------------------------------------------------------------
(* UserService.create_user called by two threads on one UserService, the     *)
(* threads interleaving between statements.  A frame holds the arguments,   *)
(* the locals and the place of a call: scan (the for loop over               *)
(* self.users.values()), read (user_id = self.next_id), incr                 *)
(* (self.next_id += 1), store (self.users[user_id] = user), done.            *)

MaxRaceNextId == 3      \* no call starts that could push next_id beyond this

\* the arguments the threads call create_user with
RaceArguments ==
    { [name |-> Ann, email |-> MailA], [name |-> Bob, email |-> MailB],
      [name |-> Str(""), email |-> MailA] }

\* the calls that may still increment next_id
InFlight == {t \in Threads : frames[t].pc \in {"scan", "read", "incr"}}

\* the frame of a call that has ended with outcome o
Done(f, o) == [f EXCEPT !.pc = "done", !.ret = o]

\* the dict create_user builds
new_user(user_id, name, email, age) ==
    [k \in {"id", "name", "email", "age", "created_at", "updated_at"} |->
        CASE k = "id" -> Num(user_id)
          [] k = "name" -> name
          [] k = "email" -> email
          [] k = "age" -> age
          [] k = "created_at" -> Timestamp
          [] k = "updated_at" -> Timestamp]

\* thread t calls create_user(a.name, a.email): the test of name and email
BeginCreate(t, a) ==
    /\ frames[t].pc = "idle"
    /\ next_id + Cardinality(InFlight) < MaxRaceNextId
    /\ frames' = [frames EXCEPT ![t] =
          IF ~Truthy(a.name) \/ ~Truthy(a.email)
          THEN [pc |-> "done", name |-> a.name, email |-> a.email, iterating |-> FALSE,
                size |-> 0, pos |-> 0, user_id |-> 0,
                ret |-> Raise("ValueError", <<"Name and email are required">>)]
          ELSE [pc |-> "scan", name |-> a.name, email |-> a.email, iterating |-> FALSE,
                size |-> 0, pos |-> 0, user_id |-> 0, ret |-> Null]]
    /\ UNCHANGED <<users, next_id, key_order>>

\* one pass of for user in self.users.values(): the iterator is made on the
\* first pass; it raises when the dict has changed size since, ends after the
\* last entry, and otherwise yields the next user for the test of its email
ForNext(t) ==
    /\ frames[t].pc = "scan"
    /\ frames' = [frames EXCEPT ![t] =
          IF frames[t].iterating /\ Len(key_order) # frames[t].size
          THEN Done(frames[t],
                    Raise("RuntimeError", <<"dictionary changed size during iteration">>))
          ELSE IF frames[t].pos = Len(key_order)
          THEN [frames[t] EXCEPT !.pc = "read"]
          ELSE IF PyEq(users[key_order[frames[t].pos + 1]]["email"], frames[t].email)
          THEN Done(frames[t],
                    Raise("ValueError", <<"User with email ">> \o PyStr(frames[t].email)
                                            \o <<" already exists">>))
          ELSE [frames[t] EXCEPT !.iterating = TRUE, !.size = Len(key_order),
                                 !.pos = frames[t].pos + 1]]
    /\ UNCHANGED <<users, next_id, key_order>>

\* user_id = self.next_id
ReadNextId(t) ==
    /\ frames[t].pc = "read"
    /\ frames' = [frames EXCEPT ![t] = [frames[t] EXCEPT !.pc = "incr", !.user_id = next_id]]
    /\ UNCHANGED <<users, next_id, key_order>>

\* self.next_id += 1
IncrementNextId(t) ==
    /\ frames[t].pc = "incr"
    /\ next_id' = next_id + 1
    /\ frames' = [frames EXCEPT ![t] = [frames[t] EXCEPT !.pc = "store"]]
    /\ UNCHANGED <<users, key_order>>

\* the record stored under the id the counter has reached, not the id read
StoreUserAtCounter(t) ==
    /\ frames[t].pc = "store"
    /\ users' = ((next_id - 1) :> new_user(frames[t].user_id, frames[t].name,
                                          frames[t].email, Null)) @@ users
    /\ key_order' = IF (next_id - 1) \in DOMAIN users THEN key_order
                    ELSE Append(key_order, next_id - 1)
    /\ frames' = [frames EXCEPT ![t] =
          Done(frames[t], Return(Obj(new_user(frames[t].user_id, frames[t].name,
                                              frames[t].email, Null))))]
    /\ UNCHANGED next_id

\* user = {...}; self.users[user_id] = user; return user
StoreUser(t) ==
    /\ frames[t].pc = "store"
    /\ users' = (frames[t].user_id :> new_user(frames[t].user_id, frames[t].name,
                                              frames[t].email, Null)) @@ users
    /\ key_order' = IF frames[t].user_id \in DOMAIN users THEN key_order
                    ELSE Append(key_order, frames[t].user_id)
    /\ frames' = [frames EXCEPT ![t] =
          Done(frames[t], Return(Obj(new_user(frames[t].user_id, frames[t].name,
                                              frames[t].email, Null))))]
    /\ UNCHANGED next_id

\* the caller of thread t takes what the call returned or raised
EndCall(t) ==
    /\ frames[t].pc = "done"
    /\ frames' = [frames EXCEPT ![t] = Idle]
    /\ UNCHANGED <<users, next_id, key_order>>

RaceStep(t) ==
    \/ \E a \in RaceArguments : BeginCreate(t, a)
    \/ ForNext(t)
    \/ ReadNextId(t)
    \/ IncrementNextId(t)
    \/ StoreUser(t)
    \/ EndCall(t)

RaceNext ==
    /\ \E t \in Threads : RaceStep(t)
    /\ UNCHANGED <<body, http, invoked, store_vars, client_vars, calc_vars>>

RaceSpec == Init /\ [][RaceNext]_vars

----------------------------------------------------------------------------
(* clients/jsonrpc_client.py: JSONRPCClient.batch_call against this server.  *)
(* A call is a JSON object with a method member and, optionally, a params    *)
(* member; json.dumps and get_json carry the values of the model (integers,  *)
(* strings, lists, objects with string keys) over unchanged.                 *)

MaxCalls == 2           \* longest list of calls given to batch_call
MaxRequestId == 4       \* the client sends no request with an id beyond this

\* the request batch_call builds for a call, given the id _get_next_id returned
call_request(c, id) ==
    Obj([k \in {"jsonrpc", "method", "id"} \cup (DOMAIN c.o \cap {"params"}) |->
        CASE k = "jsonrpc" -> Str("2.0")
          [] k = "method" -> c.o["method"]
          [] k = "id" -> Num(id)
          [] k = "params" -> c.o["params"]])

\* the list batch_call posts: call i gets the i-th id taken from request_id
batch_request(calls, first_id) ==
    [i \in 1..Len(calls) |-> call_request(calls[i], first_id + i - 1)]

\* the entry batch_call returns for an envelope of the response
processed_result(result) ==
    IF "error" \in DOMAIN result.o
    THEN Obj("error" :> FStr(<<"JSON-RPC Error ">> \o IntStr(result.o["error"].o["code"].n)
                             \o <<": ">> \o result.o["error"].o["message"].s))
    ELSE Get(result.o, "result")

\* response.json() on a response without body raises a JSONDecodeError; the
\* requests library in use decides whether it is also a RequestException, and
\* so which except clause of batch_call raises the Exception
NoJsonBody ==
    { Raise("Exception", <<"Batch request failed: ", "Expecting value: line 1 column 1 (char 0)">>),
      Raise("Exception", <<"Invalid JSON response: ", "Expecting value: line 1 column 1 (char 0)">>) }

\* what batch_call can return or raise, given the response to its post
batch_call_outcomes(response) ==
    IF response.status = 204 THEN NoJsonBody
    ELSE { Return(List([i \in 1..Len(response.body.l) |->
                          processed_result(response.body.l[i])])) }

\* the calls the client is asked to make
ClientCalls ==
    { Obj("method" :> Str("ping")),
      Obj(("method" :> Str("add")) @@ ("params" :> List(<<Num(1), Num(2)>>))),
      Obj(("method" :> Str("divide")) @@ ("params" :> Named2("a", Num(1), "b", Num(0)))),
      Obj(("method" :> Str("create_user")) @@ ("params" :> List(<<Ann, MailA>>))),
      Obj("method" :> Str("nope")) }

\* JSONRPCClient.batch_call(calls), the server handling the request posted
BatchCall(calls) ==
    /\ client_request_id + Len(calls) <= MaxRequestId + 1
    /\ \E r \in {handle_request([users |-> users, next_id |-> next_id],
                                Decoded(List(batch_request(calls, client_request_id))))} :
          /\ r.st.next_id <= MaxNextId
          /\ users' = r.st.users
          /\ next_id' = r.st.next_id
          /\ body' = Decoded(List(batch_request(calls, client_request_id)))
          /\ http' = r.http
          /\ invoked' = r.called
          /\ \E o \in batch_call_outcomes(r.http) : last_out' = o
    /\ last_call' = [op |-> "batch_call", calls |-> calls]
    /\ client_request_id' = client_request_id + Len(calls)
    /\ sent_ids' = sent_ids \cup {client_request_id + i - 1 : i \in 1..Len(calls)}
    /\ UNCHANGED <<live, created, rest_users, rest_next_id, race_vars, calc_vars>>

ClientNext == \E calls \in SeqsUpTo(ClientCalls, MaxCalls) : BatchCall(calls)

ClientSpec == Init /\ [][ClientNext]_vars

----------------------------------------------------------------------------
(* rest_server/resources.py: UserResource, the user store of the REST API.   *)
(* st is the resource's state, [users, next_id], as for UserService.         *)

\* a create that does not look at the emails already stored
resource_create_user_unchecked(st, name, email, age) ==
    IF ~Truthy(name) \/ ~Truthy(email)
    THEN Pure(Raise("ValueError", <<"Name and email are required">>), st)
    ELSE [out |-> Return(Obj(new_user(st.next_id, name, email, age))),
          st |-> [users |-> (st.next_id :> new_user(st.next_id, name, email, age)) @@ st.users,
                  next_id |-> st.next_id + 1]]

\* UserResource.create_user(name, email, age=None)
resource_create_user(st, name, email, age) ==
    IF ~Truthy(name) \/ ~Truthy(email)
    THEN Pure(Raise("ValueError", <<"Name and email are required">>), st)
    ELSE IF \E i \in DOMAIN st.users : PyEq(st.users[i]["email"], email)
    THEN Pure(Raise("ValueError",
                    <<"User with email ">> \o PyStr(email) \o <<" already exists">>), st)
    ELSE [out |-> Return(Obj(new_user(st.next_id, name, email, age))),
          st |-> [users |-> (st.next_id :> new_user(st.next_id, name, email, age)) @@ st.users,
                  next_id |-> st.next_id + 1]]

\* the record update_user leaves for a stored user: the allowed fields present
\* in kwargs replaced, updated_at set when one was
updated_fields(old, kwargs) ==
    [k \in DOMAIN old |->
        IF k \in {"name", "email", "age"} /\ k \in DOMAIN kwargs THEN kwargs[k]
        ELSE IF k = "updated_at" /\ DOMAIN kwargs \cap {"name", "email", "age"} # {}
        THEN Timestamp
        ELSE old[k]]

\* an update that does not look at the emails of the other users
resource_update_user_unchecked(st, user_id, kwargs) ==
    IF Unhashable(user_id) THEN Pure(UnhashableType(user_id), st)
    ELSE IF ~InUsers(st, user_id) THEN Pure(Return(Null), st)
    ELSE [out |-> Return(Obj(updated_fields(st.users[NumOf(user_id)], kwargs))),
          st |-> [st EXCEPT !.users[NumOf(user_id)] =
                                updated_fields(st.users[NumOf(user_id)], kwargs)]]

\* UserResource.update_user(user_id, **kwargs)
resource_update_user(st, user_id, kwargs) ==
    IF Unhashable(user_id) THEN Pure(UnhashableType(user_id), st)
    ELSE IF ~InUsers(st, user_id) THEN Pure(Return(Null), st)
    ELSE IF /\ "email" \in DOMAIN kwargs
            /\ \E uid \in DOMAIN st.users :
                  /\ uid # NumOf(user_id)
                  /\ PyEq(st.users[uid]["email"], kwargs["email"])
    THEN Pure(Raise("ValueError", <<"User with email ">> \o PyStr(kwargs["email"])
                                  \o <<" already exists">>), st)
    ELSE [out |-> Return(Obj(updated_fields(st.users[NumOf(user_id)], kwargs))),
          st |-> [st EXCEPT !.users[NumOf(user_id)] =
                                updated_fields(st.users[NumOf(user_id)], kwargs)]]

\* UserResource.delete_user(user_id)
resource_delete_user(st, user_id) ==
    IF Unhashable(user_id) THEN Pure(UnhashableType(user_id), st)
    ELSE IF InUsers(st, user_id)
    THEN [out |-> Return(Bool(TRUE)),
          st |-> [st EXCEPT !.users =
                     [k \in DOMAIN st.users \ {NumOf(user_id)} |-> st.users[k]]]]
    ELSE Pure(Return(Bool(FALSE)), st)

\* UserResource.get_user / the membership tests of the resources: a number
\* equal to a stored id is that key
InKeys(d, v) == IsNumber(v) /\ DenOf(v) = 1 /\ NumOf(v) \in DOMAIN d

\* list(d.values()): the records of a store in insertion order
values(d) == [i \in 1..Cardinality(DOMAIN d) |-> Obj(d[IdsInOrder(DOMAIN d)[i]])]

\* a page whose has_more also counts the last item of the page
paginated_inclusive(key, items, limit, offset) ==
    [k \in {key, "total", "limit", "offset", "has_more"} |->
        CASE k = key ->
               List([i \in 1..(IF offset + limit <= Len(items) THEN limit
                               ELSE IF offset <= Len(items) THEN Len(items) - offset
                               ELSE 0) |-> items[offset + i]])
          [] k = "total" -> Num(Len(items))
          [] k = "limit" -> Num(limit)
          [] k = "offset" -> Num(offset)
          [] k = "has_more" -> Bool(offset + limit <= Len(items))]

\* the dict the list operations return for the items left after filtering:
\* items[offset:offset + limit] under key, for limit >= 0 and offset >= 0
paginated(key, items, limit, offset) ==
    [k \in {key, "total", "limit", "offset", "has_more"} |->
        CASE k = key ->
               List([i \in 1..(IF offset + limit <= Len(items) THEN limit
                               ELSE IF offset <= Len(items) THEN Len(items) - offset
                               ELSE 0) |-> items[offset + i]])
          [] k = "total" -> Num(Len(items))
          [] k = "limit" -> Num(limit)
          [] k = "offset" -> Num(offset)
          [] k = "has_more" -> Bool(offset + limit < Len(items))]

\* UserResource.get_all_users(limit, offset)
resource_get_all_users(st, limit, offset) ==
    Pure(Return(Obj(paginated("users", values(st.users), limit, offset))), st)

----------------------------------------------------------------------------
(* rest_server/resources.py: TaxCalculationResource.  st is the resource's   *)
(* state, [calculations, next_id].                                           *)

\* the fields of a simple calculation computed from income, deductions and rate
simple_tax(income, deductions, tax_rate) ==
    \* taxable_income = max(0, income - deductions)
    LET taxable_income == IF PyLt(Num(0), PySub(income, deductions).v).v.b
                          THEN PySub(income, deductions).v ELSE Num(0)
    IN [k \in {"taxable_income", "tax_amount", "net_income"} |->
          CASE k = "taxable_income" -> taxable_income
            [] k = "tax_amount" -> PyMul(taxable_income, tax_rate).v
            [] k = "net_income" -> PySub(income, PyMul(taxable_income, tax_rate).v).v]

\* the record create_calculation builds under calc_id
tax_record(calc_id, income, deductions, tax_rate, calculation_type, acc) ==
    IF calculation_type = Str("progressive")
    THEN [k \in {"id", "type", "income", "deductions", "total_tax", "effective_rate",
                 "net_income", "tax_breakdown", "created_at", "updated_at"} |->
            CASE k = "id" -> Num(calc_id)
              [] k = "type" -> Str("progressive")
              [] k = "income" -> income
              [] k = "deductions" -> deductions
              [] k = "total_tax" -> acc.total_tax
              [] k = "effective_rate" ->
                    (IF PyLt(Num(0), income).v.b THEN PyDiv(acc.total_tax, income).v ELSE Num(0))
              [] k = "net_income" -> PySub(income, acc.total_tax).v
              [] k = "tax_breakdown" -> List(acc.tax_breakdown)
              [] OTHER -> Timestamp]
    ELSE [k \in {"id", "type", "income", "deductions", "taxable_income", "tax_rate",
                 "tax_amount", "net_income", "created_at", "updated_at"} |->
            CASE k = "id" -> Num(calc_id)
              [] k = "type" -> Str("simple")
              [] k = "income" -> income
              [] k = "deductions" -> deductions
              [] k = "tax_rate" -> tax_rate
              [] k \in {"taxable_income", "tax_amount", "net_income"} ->
                    simple_tax(income, deductions, tax_rate)[k]
              [] OTHER -> Timestamp]

\* TaxCalculationResource.create_calculation(income, deductions, tax_rate,
\* calculation_type), for numbers income and deductions
tax_create_calculation(st, income, deductions, tax_rate, calculation_type) ==
    IF PyLt(income, Num(0)).v.b \/ PyLt(deductions, Num(0)).v.b
    THEN Pure(Raise("ValueError", <<"Income and deductions must be non-negative">>), st)
    ELSE \* calc_id = self.next_id; self.next_id += 1; ...; self.calculations[calc_id] = ...
      LET calculation ==
            tax_record(st.next_id, income, deductions, tax_rate, calculation_type,
                       BracketLoop(income, 1, [total_tax |-> Num(0), previous_bracket |-> 0,
                                               tax_breakdown |-> <<>>]))
      IN [out |-> Return(Obj(calculation)),
          st |-> [calculations |-> (st.next_id :> calculation) @@ st.calculations,
                  next_id |-> st.next_id + 1]]

\* the record update_calculation leaves: the fields of kwargs it may write
\* written, and a simple calculation computed again when one was
tax_updated(old, kwargs) ==
    LET written == [k \in DOMAIN old \cup (DOMAIN kwargs \cap {"income", "deductions", "tax_rate"}) |->
                       IF k \in DOMAIN kwargs \cap {"income", "deductions", "tax_rate"}
                       THEN kwargs[k] ELSE old[k]]
    IN IF DOMAIN kwargs \cap {"income", "deductions", "tax_rate"} = {} THEN old
       ELSE [k \in DOMAIN written |->
               IF old["type"] = Str("simple") /\ k \in {"taxable_income", "tax_amount", "net_income"}
               THEN simple_tax(written["income"], written["deductions"], written["tax_rate"])[k]
               ELSE written[k]]

\* TaxCalculationResource.update_calculation(calc_id, **kwargs)
tax_update_calculation(st, calc_id, kwargs) ==
    IF Unhashable(calc_id) THEN Pure(UnhashableType(calc_id), st)
    ELSE IF ~InKeys(st.calculations, calc_id) THEN Pure(Return(Null), st)
    ELSE [out |-> Return(Obj(tax_updated(st.calculations[NumOf(calc_id)], kwargs))),
          st |-> [st EXCEPT !.calculations[NumOf(calc_id)] =
                                tax_updated(st.calculations[NumOf(calc_id)], kwargs)]]

\* TaxCalculationResource.delete_calculation(calc_id) and
\* CalculationResource.delete_calculation(calc_id), which are the same code
delete_calculation(st, calc_id) ==
    IF Unhashable(calc_id) THEN Pure(UnhashableType(calc_id), st)
    ELSE IF InKeys(st.calculations, calc_id)
    THEN [out |-> Return(Bool(TRUE)),
          st |-> [st EXCEPT !.calculations =
                     [k \in DOMAIN st.calculations \ {NumOf(calc_id)} |-> st.calculations[k]]]]
    ELSE Pure(Return(Bool(FALSE)), st)

\* TaxCalculationResource.get_all_calculations(limit, offset)
tax_get_all_calculations(st, limit, offset) ==
    Pure(Return(Obj(paginated("calculations", values(st.calculations), limit, offset))), st)

----------------------------------------------------------------------------
(* rest_server/resources.py: CalculationResource.                            *)

\* the loops of create_calculation over operands from position i on, result
\* being the value reached so far; what they leave or raise
RECURSIVE Accumulate(_, _, _, _)
Accumulate(operation, result, operands, i) ==
    IF i > Len(operands) THEN Return(result)
    ELSE IF operation = Str("divide") /\ PyEq(operands[i], Num(0))
    THEN Raise("ValueError", <<"Division by zero is not allowed">>)
    ELSE LET step == CASE operation = Str("add") -> PyAdd(result, operands[i])
                       [] operation = Str("subtract") -> PySub(result, operands[i])
                       [] operation = Str("multiply") -> PyMul(result, operands[i])
                       [] operation = Str("divide") -> PyDiv(result, operands[i])
         IN IF step.kind = "raise" THEN step
            ELSE Accumulate(operation, step.v, operands, i + 1)

\* the try block of create_calculation: the result, or the exception raised
perform(operation, operands) ==
    CASE operation = Str("add") -> Accumulate(operation, Num(0), operands, 1)
      [] operation = Str("subtract") -> Accumulate(operation, operands[1], operands, 2)
      [] operation = Str("multiply") -> Accumulate(operation, Num(1), operands, 1)
      [] operation = Str("divide") -> Accumulate(operation, operands[1], operands, 2)
      [] operation = Str("power") ->
            IF Len(operands) # 2
            THEN Raise("ValueError", <<"Power operation requires exactly two operands">>)
            ELSE PyPow(operands[1], operands[2])

\* create_calculation once the result is known: the record is stored
calculation_stored(st, operation, operands, kwargs, result) ==
    LET calculation ==
          [k \in {"id", "operation", "operands", "result", "metadata", "created_at"} |->
              CASE k = "id" -> Num(st.next_id)
                [] k = "operation" -> operation
                [] k = "operands" -> List(operands)
                [] k = "result" -> result
                [] k = "metadata" -> Obj(kwargs)
                [] k = "created_at" -> Timestamp]
    IN [out |-> Return(Obj(calculation)),
        st |-> [calculations |-> (st.next_id :> calculation) @@ st.calculations,
                next_id |-> st.next_id + 1]]

\* CalculationResource.create_calculation(operation, operands, **kwargs):
\* self.next_id is advanced before the try block, so it stays advanced when
\* the calculation raises
calc_create_calculation(st, operation, operands, kwargs) ==
    IF operation \notin {Str("add"), Str("subtract"), Str("multiply"), Str("divide"), Str("power")}
    THEN Pure(Raise("ValueError", <<"Unsupported operation: ">> \o PyStr(operation)), st)
    ELSE IF Len(operands) < 2
    THEN Pure(Raise("ValueError", <<"At least two operands are required">>), st)
    ELSE IF perform(operation, operands).kind = "raise"
    THEN Pure(Raise("ValueError", <<"Calculation error: ">> \o perform(operation, operands).msg),
              [st EXCEPT !.next_id = @ + 1])
    ELSE calculation_stored(st, operation, operands, kwargs, perform(operation, operands).v)

\* CalculationResource.get_all_calculations(operation, limit, offset)
calc_get_all_calculations(st, operation, limit, offset) ==
    Pure(Return(Obj(
        [k \in {"calculations", "total", "limit", "offset", "has_more", "filter"} |->
            IF k = "filter"
            THEN (IF Truthy(operation) THEN Obj("operation" :> operation) ELSE Null)
            ELSE paginated("calculations",
                           IF Truthy(operation)
                           THEN SelectSeq(values(st.calculations),
                                          LAMBDA c : PyEq(c.o["operation"], operation))
                           ELSE values(st.calculations),
                           limit, offset)[k]])),
      st)

----------------------------------------------------------------------------
(* The two user stores called directly, one call at a time, as the unit      *)
(* tests call them.                                                          *)

MaxStoreId == 3         \* a store hands out ids below this

StoreNames == {Ann, Str("")}
StoreEmails == {MailA, MailB, Str("")}
StoreIds == 1..MaxStoreId
StoreUpdates == { "email" :> MailA, "email" :> MailB, EmptyMap }

Service == [users |-> users, next_id |-> next_id]
Resource == [users |-> rest_users, next_id |-> rest_next_id]

\* the instances on which a create call has returned, once this call has
created_after(call, r) ==
    IF call.op \in {"create_user", "create_calculation"} /\ r.out.kind = "return"
    THEN created \cup {call.on}
    ELSE created

\* a call on the UserService instance has returned or raised: r is its outcome
\* and the state it leaves, alive the ids created and not deleted since
ServiceCalled(call, r, alive) ==
    /\ r.st.next_id <= MaxStoreId
    /\ users' = r.st.users
    /\ next_id' = r.st.next_id
    /\ last_call' = call
    /\ last_out' = r.out
    /\ live' = alive
    /\ created' = created_after(call, r)
    /\ UNCHANGED <<body, http, invoked, rest_users, rest_next_id, client_vars, race_vars, calc_vars>>

\* a call on the UserResource instance has returned or raised
ResourceCalled(call, r) ==
    /\ r.st.next_id <= MaxStoreId
    /\ rest_users' = r.st.users
    /\ rest_next_id' = r.st.next_id
    /\ last_call' = call
    /\ last_out' = r.out
    /\ created' = created_after(call, r)
    /\ UNCHANGED <<server_vars, live, client_vars, race_vars, calc_vars>>

CreateUser(name, email) ==
    \E r \in {create_user(Service, name, email, Null)} :
        ServiceCalled([on |-> "UserService", op |-> "create_user",
                       name |-> name, email |-> email], r,
                      IF r.out.kind = "return" THEN live \cup {r.out.v.o["id"].n} ELSE live)

UpdateUser(i, kwargs) ==
    ServiceCalled([on |-> "UserService", op |-> "update_user", user_id |-> i, kwargs |-> kwargs],
                  update_user(Service, Num(i), kwargs), live)

DeleteUser(i) ==
    \E r \in {delete_user(Service, Num(i))} :
        ServiceCalled([on |-> "UserService", op |-> "delete_user", user_id |-> i], r,
                      IF r.out.kind = "return" THEN live \ {i} ELSE live)

GetUserById(i) ==
    ServiceCalled([on |-> "UserService", op |-> "get_user_by_id", user_id |-> i],
                  get_user_by_id(Service, Num(i)), live)

ResourceCreateUser(name, email) ==
    ResourceCalled([on |-> "UserResource", op |-> "create_user",
                    name |-> name, email |-> email],
                   resource_create_user(Resource, name, email, Null))

ResourceUpdateUser(i, kwargs) ==
    ResourceCalled([on |-> "UserResource", op |-> "update_user",
                    user_id |-> i, kwargs |-> kwargs],
                   resource_update_user(Resource, Num(i), kwargs))

ResourceDeleteUser(i) ==
    ResourceCalled([on |-> "UserResource", op |-> "delete_user", user_id |-> i],
                   resource_delete_user(Resource, Num(i)))

StoreNext ==
    \/ \E name \in StoreNames, email \in StoreEmails : CreateUser(name, email)
    \/ \E i \in StoreIds, kwargs \in StoreUpdates : UpdateUser(i, kwargs)
    \/ \E i \in StoreIds : DeleteUser(i)
    \/ \E i \in StoreIds : GetUserById(i)
    \/ \E name \in StoreNames, email \in StoreEmails : ResourceCreateUser(name, email)
    \/ \E i \in StoreIds, kwargs \in StoreUpdates : ResourceUpdateUser(i, kwargs)
    \/ \E i \in StoreIds : ResourceDeleteUser(i)

StoreSpec == Init /\ [][StoreNext]_vars

----------------------------------------------------------------------------
(* The four stores, each exercised on its own from a fresh instance, as the  *)
(* unit tests do (setUp builds the object under test); they share no state.  *)

MaxPage == 2            \* largest limit and offset given to a list operation

\* the stores that have handed out an id
Exercised ==
    {s \in {"UserService", "UserResource", "TaxCalculationResource", "CalculationResource"} :
        CASE s = "UserService" -> next_id # 1
          [] s = "UserResource" -> rest_next_id # 1
          [] s = "TaxCalculationResource" -> tax_store.next_id # 1
          [] s = "CalculationResource" -> calc_store.next_id # 1}

\* a call on the TaxCalculationResource instance has returned or raised
TaxCalled(call, r) ==
    /\ Exercised \subseteq {"TaxCalculationResource"}
    /\ r.st.next_id <= MaxStoreId
    /\ tax_store' = r.st
    /\ last_call' = call
    /\ last_out' = r.out
    /\ created' = created_after(call, r)
    /\ UNCHANGED <<server_vars, live, rest_users, rest_next_id, client_vars, race_vars, calc_store>>

\* a call on the CalculationResource instance has returned or raised
CalcCalled(call, r) ==
    /\ Exercised \subseteq {"CalculationResource"}
    /\ r.st.next_id <= MaxStoreId
    /\ calc_store' = r.st
    /\ last_call' = call
    /\ last_out' = r.out
    /\ created' = created_after(call, r)
    /\ UNCHANGED <<server_vars, live, rest_users, rest_next_id, client_vars, race_vars, tax_store>>

InstanceNext ==
    \/ /\ Exercised \subseteq {"UserService"}
       /\ \/ \E name \in StoreNames, email \in StoreEmails : CreateUser(name, email)
          \/ \E i \in StoreIds : DeleteUser(i)
          \/ \E i \in StoreIds,
                kwargs \in { "name" :> Bob, "email" :> MailB, "age" :> Num(31), EmptyMap,
                             [k \in {"id", "name"} |-> IF k = "id" THEN Num(9) ELSE Bob] } :
                UpdateUser(i, kwargs)
    \/ /\ Exercised \subseteq {"UserResource"}
       /\ \/ \E name \in StoreNames, email \in StoreEmails : ResourceCreateUser(name, email)
          \/ \E i \in StoreIds : ResourceDeleteUser(i)
          \/ \E limit \in 0..MaxPage, offset \in 0..MaxPage :
                ResourceCalled([on |-> "UserResource", op |-> "get_all_users",
                                limit |-> limit, offset |-> offset],
                               resource_get_all_users(Resource, limit, offset))
    \/ \E income \in {Num(100), Num(-1)}, deductions \in {Num(0), Num(-1)},
          calculation_type \in {Str("simple"), Str("progressive")} :
          TaxCalled([on |-> "TaxCalculationResource", op |-> "create_calculation",
                     income |-> income, deductions |-> deductions],
                    tax_create_calculation(tax_store, income, deductions, Float(1, 5),
                                           calculation_type))
    \/ \E i \in StoreIds, kwargs \in {"income" :> Num(-5), "deductions" :> Num(10), EmptyMap} :
          TaxCalled([on |-> "TaxCalculationResource", op |-> "update_calculation",
                     calc_id |-> i, kwargs |-> kwargs],
                    tax_update_calculation(tax_store, Num(i), kwargs))
    \/ \E i \in StoreIds :
          TaxCalled([on |-> "TaxCalculationResource", op |-> "delete_calculation", calc_id |-> i],
                    delete_calculation(tax_store, Num(i)))
    \/ \E limit \in 0..MaxPage, offset \in 0..MaxPage :
          TaxCalled([on |-> "TaxCalculationResource", op |-> "get_all_calculations",
                     operation |-> Null, limit |-> limit, offset |-> offset],
                    tax_get_all_calculations(tax_store, limit, offset))
    \/ \E c \in { <<Str("add"), <<Num(1), Num(2)>> >>, <<Str("multiply"), <<Num(2), Num(3)>> >>,
                  <<Str("divide"), <<Num(1), Num(0)>> >>, <<Str("power"), <<Num(2), Num(3), Num(4)>> >>,
                  <<Str("root"), <<Num(1), Num(2)>> >>, <<Str("add"), <<Num(1)>> >> } :
          CalcCalled([on |-> "CalculationResource", op |-> "create_calculation",
                      operation |-> c[1], operands |-> c[2]],
                     calc_create_calculation(calc_store, c[1], c[2], EmptyMap))
    \/ \E i \in StoreIds :
          CalcCalled([on |-> "CalculationResource", op |-> "delete_calculation", calc_id |-> i],
                     delete_calculation(calc_store, Num(i)))
    \/ \E operation \in {Null, Str("add"), Str("")}, limit \in 0..MaxPage, offset \in 0..MaxPage :
          CalcCalled([on |-> "CalculationResource", op |-> "get_all_calculations",
                      operation |-> operation, limit |-> limit, offset |-> offset],
                     calc_get_all_calculations(calc_store, operation, limit, offset))

InstanceSpec == Init /\ [][InstanceNext]_vars

----------------------------------------------------------------------------
(* Properties *)

\* a request has been handled
Handled == http.status # 0

\* the request handled was a single JSON object
SingleObject == body.decodable /\ body.data.t = "obj"

\* e is an error envelope with the given code and id, and no result
IsError(e, code, id) ==
    /\ e.t = "obj"
    /\ "error" \in DOMAIN e.o /\ "result" \notin DOMAIN e.o /\ "id" \in DOMAIN e.o
    /\ e.o["error"].t = "obj"
    /\ e.o["error"].o["code"] = Num(code)
    /\ e.o["id"] = id

\* a batch entry that is a notification: an object without id
IsNotificationEntry(e) == e.t = "obj" /\ "id" \notin DOMAIN e.o

\* the entries of a batch that are not notifications, in batch order
NonNotifications(items) == SelectSeq(items, LAMBDA e : ~IsNotificationEntry(e))

\* the id an entry is to be answered with
EntryId(e) == IF e.t = "obj" THEN e.o["id"] ELSE Null

\* the envelopes of a response that is a list
ListedEnvelopes == IF http.status = 200 /\ http.body.t = "list" THEN http.body.l ELSE <<>>

\* every envelope in the response
AllEnvelopes ==
    IF http.status # 200 THEN {}
    ELSE IF http.body.t = "list" THEN {http.body.l[i] : i \in 1..Len(http.body.l)}
    ELSE {http.body}

\* C1: a single request object that has an id member (a string, a number or
\* null) is answered with exactly one envelope, a result or an error, whose id
\* is the id of the request
C1_IdEchoed ==
    (SingleObject /\ "id" \in DOMAIN body.data.o) =>
        /\ http.status = 200
        /\ http.body.t = "obj"
        /\ ("result" \in DOMAIN http.body.o) \/ ("error" \in DOMAIN http.body.o)
        /\ "id" \in DOMAIN http.body.o
        /\ http.body.o["id"] = body.data.o["id"]

C1_Witness ==
    /\ SingleObject /\ "id" \in DOMAIN body.data.o /\ body.data.o["id"] = Null
    /\ http.status = 200 /\ "result" \in DOMAIN http.body.o
    /\ http.body.o["id"] = Null

\* C2: a request object without id member is never answered with an envelope,
\* whatever its version, method and params are and whether or not a handler
\* ran and raised
C2_NotificationUnanswered ==
    (SingleObject /\ "id" \notin DOMAIN body.data.o) => http = NoContent

C2_Witness ==
    /\ body = Decoded(Request(Str("2.0"), Str("divide"), List(<<Num(1), Num(0)>>), Absent))
    /\ Len(invoked) = 1 /\ invoked[1].method = "divide"
    /\ http = NoContent

\* C3: the answer to a batch has one envelope per entry that is not a
\* notification, none for the notifications, and the i-th envelope carries
\* the id of the i-th such entry
C3_BatchOrder ==
    (body.decodable /\ body.data.t = "list") =>
        LET expected == NonNotifications(body.data.l)
        IN /\ http.status = 200 => http.body.t = "list"
           /\ Len(ListedEnvelopes) = Len(expected)
           /\ \A i \in 1..Len(expected) :
                 /\ ListedEnvelopes[i] # Null
                 /\ ListedEnvelopes[i].o["id"] = EntryId(expected[i])

C3_Witness ==
    /\ body.decodable /\ body.data.t = "list" /\ Len(body.data.l) = 2
    /\ IsNotificationEntry(body.data.l[1])
    /\ body.data.l[2].t = "obj" /\ Get(body.data.l[2].o, "id") = Num(5)
    /\ Len(ListedEnvelopes) = 1
    /\ ListedEnvelopes[1].o["id"] = Num(5) /\ "result" \in DOMAIN ListedEnvelopes[1].o

\* requests for which no envelope is due: a lone notification, a batch of
\* notifications only, an empty batch
NoEnvelopeDue ==
    /\ body.decodable
    /\ \/ /\ body.data.t = "obj"
          /\ "id" \notin DOMAIN body.data.o
       \/ /\ body.data.t = "list"
          /\ \A i \in 1..Len(body.data.l) : IsNotificationEntry(body.data.l[i])

\* C4: the answer is 204 without body exactly when no envelope is due; every
\* other request is answered 200 with an envelope or a non-empty list of
\* envelopes, error envelopes included
C4_NoContentIffNoEnvelope ==
    Handled =>
        IF NoEnvelopeDue THEN http = NoContent
        ELSE /\ http.status = 200
             /\ \/ /\ http.body.t = "obj"
                   /\ ("result" \in DOMAIN http.body.o) \/ ("error" \in DOMAIN http.body.o)
                \/ /\ http.body.t = "list"
                   /\ http.body.l # <<>>

C4_Witness ==
    /\ body.decodable /\ body.data.t = "list" /\ Len(body.data.l) = MaxBatch
    /\ \A i \in 1..Len(body.data.l) : IsNotificationEntry(body.data.l[i])
    /\ invoked # <<>>
    /\ http.status = 204

ErrorCodes == {PARSE_ERROR, INVALID_REQUEST, METHOD_NOT_FOUND, INVALID_PARAMS, INTERNAL_ERROR}

WellFormedError(e) ==
    /\ e.t = "obj"
    /\ {"code", "message"} \subseteq DOMAIN e.o
    /\ e.o["code"].t = "int" /\ e.o["code"].n \in ErrorCodes
    /\ e.o["message"].t = "str"

WellFormedEnvelope(e) ==
    /\ e.t = "obj"
    /\ {"jsonrpc", "id"} \subseteq DOMAIN e.o
    /\ e.o["jsonrpc"] = Str("2.0")
    /\ ("result" \in DOMAIN e.o) # ("error" \in DOMAIN e.o)
    /\ "error" \in DOMAIN e.o => WellFormedError(e.o["error"])

\* C5: every envelope sent has jsonrpc "2.0", an id member and exactly one of
\* result and error; an error has a code of the enumeration and a message
C5_EnvelopeShape == \A e \in AllEnvelopes : WellFormedEnvelope(e)

C5_Witness ==
    /\ http.status = 200 /\ http.body.t = "list"
    /\ \E e \in AllEnvelopes : "result" \in DOMAIN e.o
    /\ \E e \in AllEnvelopes : "error" \in DOMAIN e.o /\ e.o["error"].o["code"] = Num(-32600)

\* C6: a request object whose jsonrpc member is missing or is not the string
\* "2.0" invokes no handler; with an id it is answered with an
\* INVALID_REQUEST error carrying that id, without an id it is not answered
C6_BadVersion ==
    (SingleObject /\ Get(body.data.o, "jsonrpc") # Str("2.0")) =>
        /\ invoked = <<>>
        /\ IF "id" \in DOMAIN body.data.o
           THEN http.status = 200 /\ IsError(http.body, -32600, body.data.o["id"])
           ELSE http = NoContent

C6_Witness ==
    /\ SingleObject
    /\ Get(body.data.o, "jsonrpc") = Str("1.0")
    /\ Get(body.data.o, "method") = Str("create_user")
    /\ "params" \in DOMAIN body.data.o
    /\ Get(body.data.o, "id") = Str("a")
    /\ IsError(http.body, -32600, Str("a"))

\* C7: a request object with jsonrpc "2.0" whose method member is missing or
\* is not a string invokes no handler; with an id it is answered with an
\* INVALID_REQUEST error carrying that id, without an id it is not answered
C7_BadMethod ==
    (SingleObject /\ Get(body.data.o, "jsonrpc") = Str("2.0")
        /\ ("method" \notin DOMAIN body.data.o \/ body.data.o["method"].t # "str")) =>
        /\ invoked = <<>>
        /\ IF "id" \in DOMAIN body.data.o
           THEN http.status = 200 /\ IsError(http.body, -32600, body.data.o["id"])
           ELSE http = NoContent

C7_Witness ==
    /\ SingleObject
    /\ Get(body.data.o, "jsonrpc") = Str("2.0")
    /\ Get(body.data.o, "method") = Num(1)
    /\ Get(body.data.o, "id") = Num(1)
    /\ IsError(http.body, -32600, Num(1))

\* a call (version "2.0", id present) of a method name that is a string
UnregisteredCall ==
    /\ SingleObject
    /\ Get(body.data.o, "jsonrpc") = Str("2.0")
    /\ "id" \in DOMAIN body.data.o
    /\ "method" \in DOMAIN body.data.o /\ body.data.o["method"].t = "str"
    /\ body.data.o["method"].s \notin {<<m>> : m \in method_map}

\* C8 as stated: a call of any string that is not a registered method is
\* answered with a METHOD_NOT_FOUND error carrying the id
C8_AsStated ==
    UnregisteredCall => http.status = 200 /\ IsError(http.body, -32601, body.data.o["id"])

\* C8 amended: a call of a non-empty string that is not a registered method is
\* answered with a METHOD_NOT_FOUND error carrying the id (the empty string is
\* rejected in validation as INVALID_REQUEST)
C8_UnknownMethod ==
    (UnregisteredCall /\ body.data.o["method"] # Str("")) =>
        http.status = 200 /\ IsError(http.body, -32601, body.data.o["id"])

C8_Witness ==
    /\ UnregisteredCall
    /\ body.data.o["method"] = Str("nope")
    /\ body.data.o["id"] = Str("a")
    /\ IsError(http.body, -32601, Str("a"))

\* C9 as stated: when a registered method was invoked for a call and the call
\* is answered with an error, the code is INTERNAL_ERROR, never
\* METHOD_NOT_FOUND
C9_HandlerFailureIsInternal ==
    (SingleObject /\ "id" \in DOMAIN body.data.o /\ invoked # <<>>
        /\ http.status = 200 /\ "error" \in DOMAIN http.body.o) =>
        http.body.o["error"].o["code"] = Num(-32603)

\* the position among the envelopes of the answer to entry i of a batch
EnvelopeIndex(items, i) == Len(NonNotifications(SubSeq(items, 1, i)))

\* C10 as stated: a decoded value that is not an object (a number, a string, a
\* boolean or null), alone or as an entry of a batch, is answered with an
\* INVALID_REQUEST error with null id
C10_NonObjectInvalid ==
    /\ (body.decodable /\ body.data.t \notin {"obj", "list"}) =>
          http.status = 200 /\ IsError(http.body, -32600, Null)
    /\ (body.decodable /\ body.data.t = "list") =>
          \A i \in 1..Len(body.data.l) :
             body.data.l[i].t # "obj" =>
                /\ EnvelopeIndex(body.data.l, i) <= Len(ListedEnvelopes)
                /\ IsError(ListedEnvelopes[EnvelopeIndex(body.data.l, i)], -32600, Null)

\* the request b is a call (version "2.0", id present) of a registered method
RegisteredCall(b) ==
    /\ b.decodable /\ b.data.t = "obj"
    /\ Get(b.data.o, "jsonrpc") = Str("2.0")
    /\ "id" \in DOMAIN b.data.o
    /\ "method" \in DOMAIN b.data.o /\ b.data.o["method"].t = "str"
    /\ b.data.o["method"].s \in {<<m>> : m \in method_map}

\* the name of the method a registered call names
MethodOf(b) == b.data.o["method"].s[1]

\* the arguments a handler is to be given for the params member p (Absent when
\* the request has none): positional ones in list order, keyword ones
ExpectedArgs(p) == IF p.t = "list" THEN p.l ELSE <<>>
ExpectedKwargs(p) == IF p.t = "obj" THEN p.o ELSE EmptyMap

\* the params member of a request object, Absent when it has none
ParamsMember(b) == IF "params" \in DOMAIN b.data.o THEN b.data.o["params"] ELSE Absent

\* the handler of call b, run by itself on the store st, returned a value and
\* the envelope e is not the result envelope carrying that value
ResultDiffers(outcome, e, id) ==
    outcome.kind = "return" /\ e # Obj([k \in {"jsonrpc", "result", "id"} |->
                                        CASE k = "jsonrpc" -> Str("2.0")
                                          [] k = "result" -> outcome.v
                                          [] k = "id" -> id])

\* C11: a call of a registered method invokes the handler once, with the
\* members of params as keyword arguments when params is an object, with its
\* elements as positional arguments in order when it is a list, without
\* arguments when it is absent; when the handler returns, the envelope's
\* result is the value the handler returned on the store as it was
C11_ParamsBinding ==
    [][RegisteredCall(body') =>
        /\ invoked' = << [method |-> MethodOf(body'),
                          args |-> ExpectedArgs(ParamsMember(body')),
                          kwargs |-> ExpectedKwargs(ParamsMember(body'))] >>
        /\ ~ResultDiffers(Call([users |-> users, next_id |-> next_id], MethodOf(body'),
                               ExpectedArgs(ParamsMember(body')),
                               ExpectedKwargs(ParamsMember(body'))).out,
                          http'.body, body'.data.o["id"])]_vars

C11_Witness ==
    /\ body = Decoded(Request(Str("2.0"), Str("add"), Named2("a", Num(10), "b", Num(5)), Num(1)))
    /\ invoked = <<[method |-> "add", args |-> <<>>,
                    kwargs |-> ("a" :> Num(10)) @@ ("b" :> Num(5))]>>
    /\ http.status = 200
    /\ http.body.o["result"].o["operation"] = Str("addition")
    /\ http.body.o["result"].o["operands"] = List(<<Num(10), Num(5)>>)
    /\ http.body.o["result"].o["result"] = Num(15)

\* C12: whatever was posted and whatever the handlers did, the request is
\* answered: with 204 and no body, or with 200 and an envelope or a list of
\* envelopes, each one well formed; never with anything else
C12_NoEscape ==
    Handled =>
        \/ http = NoContent
        \/ /\ http.status = 200
           /\ http.body.t \in {"obj", "list"}
           /\ http.body.t = "obj" => WellFormedEnvelope(http.body)
           /\ http.body.t = "list" =>
                 \A i \in 1..Len(http.body.l) : WellFormedEnvelope(http.body.l[i])

\* a handler raised an exception that _call_method does not wrap
\* (AttributeError in batch_calculate) and the call got an error envelope
C12_Witness ==
    /\ body = Decoded(Request(Str("2.0"), Str("batch_calculate"), List(<<List(<<Num(5)>>)>>), Num(1)))
    /\ Len(invoked) = 1
    /\ IsError(http.body, -32603, Num(1))
    /\ http.body.o["error"].o["message"] =
          FStr(<<"'", "int", "' object has no attribute 'get'">>)

\* the second operand of a divide request with two operands, given by
\* position or by name
Divisor(p) == IF p.t = "list" THEN p.l[2] ELSE p.o["b"]

\* the request handled is a call of divide with two operands, the second 0
DivideByZeroCall ==
    /\ RegisteredCall(body)
    /\ MethodOf(body) = "divide"
    /\ \/ ParamsMember(body).t = "list" /\ Len(ParamsMember(body).l) = 2
       \/ ParamsMember(body).t = "obj" /\ DOMAIN ParamsMember(body).o = {"a", "b"}
    /\ PyEq(Divisor(ParamsMember(body)), Num(0))

\* the text of the ValueError divide raises
DivisionByZeroText == "Division by zero is not allowed"

\* C13: a call of divide whose second operand is 0, given by name or by
\* position, is answered with an error envelope (no result member) that
\* carries the id of the call and whose message contains the text of the
\* handler's division-by-zero error
C13_DivideByZero ==
    DivideByZeroCall =>
        /\ http.status = 200
        /\ http.body.t = "obj"
        /\ "error" \in DOMAIN http.body.o /\ "result" \notin DOMAIN http.body.o
        /\ http.body.o["id"] = body.data.o["id"]
        /\ \E i \in 1..Len(http.body.o["error"].o["message"].s) :
              http.body.o["error"].o["message"].s[i] = DivisionByZeroText

C13_Witness ==
    /\ DivideByZeroCall
    /\ ParamsMember(body) = Named2("a", Num(1), "b", Num(0))
    /\ IsError(http.body, -32603, Num(1))
    /\ http.body.o["error"].o["message"] =
          FStr(<<"Invalid parameter values for method '", "divide", "': ", DivisionByZeroText>>)

\* C14: a body that cannot be decoded as JSON is answered with one error
\* envelope, code PARSE_ERROR and null id, and no handler is invoked
C14_ParseError ==
    (Handled /\ ~body.decodable) =>
        /\ http.status = 200
        /\ IsError(http.body, -32700, Null)
        /\ invoked = <<>>

C14_Witness ==
    /\ body = Undecodable
    /\ http = jsonify(Obj([k \in {"jsonrpc", "error", "id"} |->
                  CASE k = "jsonrpc" -> Str("2.0")
                    [] k = "error" -> Obj([f \in {"code", "message"} |->
                                             IF f = "code" THEN Num(-32700) ELSE Str("Parse error")])
                    [] k = "id" -> Null]))
    /\ users # << >>

\* the methods that do not change the user store
NonMutatingMethods ==
    { "ping", "get_server_info", "add", "subtract", "multiply", "divide", "power",
      "batch_calculate", "calculate_tax", "calculate_progressive_tax", "list_users",
      "get_user_by_id" }

\* b is a request object, call or notification, for one of these methods
NonMutatingRequest(b) ==
    /\ b.decodable /\ b.data.t = "obj"
    /\ Get(b.data.o, "jsonrpc") = Str("2.0")
    /\ Get(b.data.o, "method").t = "str"
    /\ Get(b.data.o, "method").s \in {<<m>> : m \in NonMutatingMethods}

\* C15: when a request for a method that does not change the store is
\* posted again right after it was handled, the second response equals the
\* first (the clock and uuid fields aside, which the model keeps as tokens),
\* the same handler is invoked, and the store is left as the first left it
C15_Idempotent ==
    [][(body' = body /\ NonMutatingRequest(body)) =>
          /\ http' = http
          /\ invoked' = invoked
          /\ users' = users
          /\ next_id' = next_id]_vars

C15_Witness ==
    /\ body = Decoded(Request(Str("2.0"), Str("get_user_by_id"), List(<<Num(1)>>), Num(1)))
    /\ 1 \in DOMAIN users
    /\ http.status = 200
    /\ http.body.o["result"] = Obj(users[1])

\* the create_user calls of threads t and u, made with different emails, have
\* both returned, and both had read the same value of next_id
SameIdRead(t, u) ==
    /\ t # u
    /\ frames[t].pc = "done" /\ frames[t].ret.kind = "return"
    /\ frames[u].pc = "done" /\ frames[u].ret.kind = "return"
    /\ frames[t].email # frames[u].email
    /\ frames[t].user_id = frames[u].user_id

\* the threads among S whose returned record is in the store
Stored(S) == {t \in S : \E k \in DOMAIN users : Obj(users[k]) = frames[t].ret.v}

\* C16: create_user takes no lock, so two calls can both read next_id before
\* either increments it (C16_Witness is such a run); whenever that has
\* happened, both calls have returned the same user id and the store holds the
\* record of only one of them, under that id
C16_LostUpdate ==
    \A t \in Threads, u \in Threads :
        SameIdRead(t, u) =>
            /\ frames[t].ret.v.o["id"] = frames[u].ret.v.o["id"]
            /\ frames[t].ret.v.o["id"] = Num(frames[t].user_id)
            /\ Cardinality(Stored({t, u})) = 1
            /\ frames[t].user_id \in DOMAIN users
            /\ Obj(users[frames[t].user_id]) \in {frames[t].ret.v, frames[u].ret.v}

C16_Witness ==
    /\ SameIdRead(1, 2)
    /\ frames[1].user_id = 1
    /\ frames[1].ret.v.o["id"] = Num(1) /\ frames[2].ret.v.o["id"] = Num(1)
    /\ frames[1].ret.v.o["email"] = MailA /\ frames[2].ret.v.o["email"] = MailB
    /\ DOMAIN users = {1}
    /\ users[1]["email"] = MailB
    /\ next_id = 3

\* the entry batch_call is to return for a call, given the envelope the
\* server answered that call with
EntryFor(envelope) ==
    IF "error" \in DOMAIN envelope.o
    THEN Obj("error" :> FStr(<<"JSON-RPC Error ">>
                             \o IntStr(envelope.o["error"].o["code"].n) \o <<": ">>
                             \o envelope.o["error"].o["message"].s))
    ELSE envelope.o["result"]

\* C17 as stated: batch_call returns, for every list of calls, a list with
\* one entry per call, entry i being the result of call i or the error it was
\* answered with, and the requests it sends carry ids the client has not sent
\* before
C17_BatchCallEntries ==
    [][last_call'.op = "batch_call" =>
        /\ last_out'.kind = "return"
        /\ last_out'.v.t = "list"
        /\ Len(last_out'.v.l) = Len(last_call'.calls)
        /\ \A i \in 1..Len(last_call'.calls) :
              /\ body'.data.l[i].o["method"] = last_call'.calls[i].o["method"]
              /\ body'.data.l[i].o["id"].n \notin sent_ids
              /\ \A j \in 1..Len(last_call'.calls) :
                    i # j => body'.data.l[i].o["id"] # body'.data.l[j].o["id"]
              /\ http'.body.l[i].o["id"] = body'.data.l[i].o["id"]
              /\ last_out'.v.l[i] = EntryFor(http'.body.l[i])]_vars

\* the outcome is a ValueError whose message ends with the given words
ValueErrorEnding(o, words) ==
    /\ o.kind = "raise"
    /\ o.exc = "ValueError"
    /\ o.msg # <<>>
    /\ o.msg[Len(o.msg)] = words

OnService(call, op) == call.op = op /\ call.on = "UserService"
OnResource(call, op) == call.op = op /\ call.on = "UserResource"

\* C18: in UserService, get_user_by_id(i) returns the stored record of user i
\* exactly when a successful create_user returned i and no successful
\* delete_user(i) followed, and raises ValueError 'not found' otherwise;
\* delete_user(i) of such a missing i raises ValueError 'not found' and changes
\* neither users nor next_id
C18_GetAndDelete ==
    [][/\ OnService(last_call', "get_user_by_id") =>
            IF last_call'.user_id \in live
            THEN /\ last_call'.user_id \in DOMAIN users'
                 /\ last_out' = Return(Obj(users'[last_call'.user_id]))
                 /\ users'[last_call'.user_id]["id"] = Num(last_call'.user_id)
            ELSE ValueErrorEnding(last_out', " not found")
       /\ (OnService(last_call', "delete_user") /\ last_call'.user_id \notin live) =>
            /\ ValueErrorEnding(last_out', " not found")
            /\ users' = users
            /\ next_id' = next_id]_vars

\* a user was created, then deleted, and is looked up afterwards
C18_Witness ==
    /\ OnService(last_call, "get_user_by_id")
    /\ last_call.user_id < next_id
    /\ last_call.user_id \notin live
    /\ last_out.kind = "raise"

\* the store a create_user call was made on, before and after the call
StoreBefore(call) == IF call.on = "UserService" THEN Service ELSE Resource
StoreAfter(call) ==
    IF call.on = "UserService" THEN [users |-> users', next_id |-> next_id']
    ELSE [users |-> rest_users', next_id |-> rest_next_id']

EmailStored(st, email) == \E i \in DOMAIN st.users : st.users[i]["email"] = email

\* C19: create_user, of UserService and of UserResource, with an empty name or
\* an empty email raises ValueError 'required', and with the email of a
\* currently stored user raises ValueError 'already exists'; in both cases
\* nothing is stored and users and next_id are unchanged
C19_CreateRejected ==
    [][last_call'.op = "create_user" =>
         /\ (last_call'.name = Str("") \/ last_call'.email = Str("")) =>
               /\ ValueErrorEnding(last_out', "Name and email are required")
               /\ StoreAfter(last_call') = StoreBefore(last_call')
         /\ (/\ last_call'.name # Str("")
             /\ last_call'.email # Str("")
             /\ EmailStored(StoreBefore(last_call'), last_call'.email)) =>
               /\ ValueErrorEnding(last_out', " already exists")
               /\ StoreAfter(last_call') = StoreBefore(last_call')]_vars

\* UserResource.create_user was called with the email of a stored user
C19_Witness ==
    /\ OnResource(last_call, "create_user")
    /\ last_call.name # Str("")
    /\ EmailStored(Resource, last_call.email)
    /\ ValueErrorEnding(last_out, " already exists")

\* the email a stored user other than user_id holds
HeldByAnother(st, user_id, email) ==
    \E uid \in DOMAIN st.users : uid # user_id /\ PyEq(st.users[uid]["email"], email)

\* C20: in UserResource no two stored users have the same email, and
\* update_user of a stored user with an email that a different user holds
\* raises ValueError 'already exists' and leaves every stored record unchanged
C20_EmailUnique ==
    [][/\ \A i, j \in DOMAIN rest_users' :
             i # j => ~PyEq(rest_users'[i]["email"], rest_users'[j]["email"])
       /\ (/\ OnResource(last_call', "update_user")
           /\ "email" \in DOMAIN last_call'.kwargs
           /\ HeldByAnother(Resource, last_call'.user_id, last_call'.kwargs["email"])) =>
             /\ rest_users' = rest_users
             /\ rest_next_id' = rest_next_id
             /\ last_call'.user_id \in DOMAIN rest_users =>
                   ValueErrorEnding(last_out', " already exists")
             /\ last_call'.user_id \notin DOMAIN rest_users =>
                   last_out' = Return(Null)]_vars

\* a stored user was to take the email of another stored user
C20_Witness ==
    /\ OnResource(last_call, "update_user")
    /\ last_call.user_id \in DOMAIN rest_users
    /\ "email" \in DOMAIN last_call.kwargs
    /\ HeldByAnother(Resource, last_call.user_id, last_call.kwargs["email"])
    /\ ValueErrorEnding(last_out, " already exists")

\* the list of operations a batch_calculate call hands to the handler
OperationsOf(b) ==
    IF ParamsMember(b).t = "list" THEN ParamsMember(b).l[1] ELSE ParamsMember(b).o["operations"]

\* a call of batch_calculate with a list of operation objects
BatchCalculateCall(b) ==
    /\ RegisteredCall(b)
    /\ MethodOf(b) = "batch_calculate"
    /\ ParamsMember(b) \in {List(<<ops>>) : ops \in {OperationsOf(b)}}
                              \cup {Obj("operations" :> ops) : ops \in {OperationsOf(b)}}
    /\ OperationsOf(b).t = "list"
    /\ \A i \in 1..Len(OperationsOf(b).l) : OperationsOf(b).l[i].t = "obj"

\* the operation cannot be computed: an operand is missing or is not a number,
\* the name is not one of the five operations, the divisor is zero, or zero is
\* raised to a negative power
OperationFails(op) ==
    \/ Get(op, "a") = Null \/ Get(op, "b") = Null
    \/ ~IsNumber(Get(op, "a")) \/ ~IsNumber(Get(op, "b"))
    \/ Get(op, "operation") \notin {Str("add"), Str("subtract"), Str("multiply"),
                                    Str("divide"), Str("power")}
    \/ Get(op, "operation") = Str("divide") /\ NumOf(Get(op, "b")) = 0
    \/ Get(op, "operation") = Str("power") /\ NumOf(Get(op, "a")) = 0 /\ NumOf(Get(op, "b")) < 0

\* what an operation that can be computed evaluates to
ValueOf(op) ==
    CASE op["operation"] = Str("add") -> PyAdd(op["a"], op["b"]).v
      [] op["operation"] = Str("subtract") -> PySub(op["a"], op["b"]).v
      [] op["operation"] = Str("multiply") -> PyMul(op["a"], op["b"]).v
      [] op["operation"] = Str("divide") -> PyDiv(op["a"], op["b"]).v
      [] op["operation"] = Str("power") -> PyPow(op["a"], op["b"]).v

\* C21: batch_calculate returns one entry per operation, in input order; the
\* entry of an operation that fails has an 'error' key, and the operations
\* after it are computed all the same
C21_BatchCalculate ==
    BatchCalculateCall(body) =>
        /\ http.body.t = "obj" /\ "result" \in DOMAIN http.body.o
        /\ http.body.o["result"].t = "list"
        /\ Len(http.body.o["result"].l) = Len(OperationsOf(body).l)
        /\ \A i \in 1..Len(OperationsOf(body).l) :
              \E op \in {OperationsOf(body).l[i].o}, entry \in {http.body.o["result"].l[i].o} :
                 /\ entry["operands"] = List(<<Get(op, "a"), Get(op, "b")>>)
                 /\ OperationFails(op) <=> "error" \in DOMAIN entry
                 /\ ~OperationFails(op) => entry["result"] = ValueOf(op)

\* a batch with a failing operation followed by one that is computed
C21_Witness ==
    /\ BatchCalculateCall(body)
    /\ \E i, j \in 1..Len(OperationsOf(body).l) :
          /\ i < j
          /\ OperationFails(OperationsOf(body).l[i].o)
          /\ ~OperationFails(OperationsOf(body).l[j].o)
          /\ "result" \in DOMAIN http.body.o["result"].l[j].o

\* the last call was a list operation of a REST resource
ListCall == last_call.op \in {"get_all_users", "get_all_calculations"}

\* the records of the store the last call was made on, by id
RecordsListed ==
    CASE last_call.on = "UserResource" -> rest_users
      [] last_call.on = "TaxCalculationResource" -> tax_store.calculations
      [] last_call.on = "CalculationResource" -> calc_store.calculations

\* the ids of the records the last list call selects: all of them, or those of
\* the operation it filters by
Selected ==
    {id \in DOMAIN RecordsListed :
        \/ last_call.on # "CalculationResource"
        \/ last_call.operation \in {Null, Str("")}
        \/ RecordsListed[id]["operation"] = last_call.operation}

\* the position, from 0, of a selected record among the selected ones in
\* insertion order (ids are handed out in increasing order)
Position(id) == Cardinality({j \in Selected : j < id})

\* the list the last list call returned
PageReturned ==
    last_out.v.o[IF last_call.on = "UserResource" THEN "users" ELSE "calculations"].l

\* C22: for limit >= 0 and offset >= 0 a list operation returns the items at
\* positions offset .. offset+limit-1 of the selected items in insertion order,
\* total is the number of selected items, and has_more is true exactly when
\* offset + limit < total, that is when an item lies beyond the page
C22_Pagination ==
    ListCall =>
        /\ last_out.kind = "return"
        /\ last_out.v.o["total"] = Num(Cardinality(Selected))
        /\ Len(PageReturned) =
              Cardinality({id \in Selected : /\ last_call.offset <= Position(id)
                                             /\ Position(id) < last_call.offset + last_call.limit})
        /\ \A id \in Selected :
              (last_call.offset <= Position(id)
                  /\ Position(id) < last_call.offset + last_call.limit) =>
                 PageReturned[Position(id) - last_call.offset + 1] = Obj(RecordsListed[id])
        /\ last_out.v.o["has_more"].b <=>
              last_call.offset + last_call.limit < Cardinality(Selected)
        /\ last_out.v.o["has_more"].b <=>
              \E id \in Selected : Position(id) >= last_call.offset + last_call.limit

\* a filtered list call returned a page with an item left beyond it
C22_Witness ==
    /\ ListCall
    /\ last_call.on = "CalculationResource"
    /\ last_call.operation = Str("add")
    /\ Len(PageReturned) = 1
    /\ last_out.v.o["has_more"] = Bool(TRUE)

\* the envelope a single dispatch answered with, none for 204 No Content
Answered(r) == IF r.http.status = 204 THEN <<>> ELSE <<r.http.body>>

\* the entries of a batch from position i on dispatched one at a time, each as
\* the body of a request of its own, starting from store st: the store left
\* and the envelopes answered, in order
RECURSIVE OneAtATime(_, _, _, _)
OneAtATime(st, envelopes, items, i) ==
    IF i > Len(items) THEN [st |-> st, envelopes |-> envelopes]
    ELSE \* the dispatch of items[i] is bound once, as r
         LET Step(r) == OneAtATime(r.st, envelopes \o Answered(r), items, i + 1)
         IN Step(handle_request(st, Decoded(items[i])))

\* the response to a batch whose entries were answered with these envelopes
BatchOf(envelopes) == IF envelopes = <<>> THEN NoContent ELSE jsonify(List(envelopes))

\* the batch handled in this step left what r, its entries dispatched singly, left
SameAsSingly(r) ==
    /\ users' = r.st.users
    /\ next_id' = r.st.next_id
    /\ http' = BatchOf(r.envelopes)

\* C23 as stated: dispatching a batch produces the same envelopes and the same
\* final store as dispatching its entries one at a time, in order, as single
\* requests
C23_BatchIsSequential ==
    [][(body'.decodable /\ body'.data.t = "list") =>
          SameAsSingly(OneAtATime([users |-> users, next_id |-> next_id], <<>>,
                                  body'.data.l, 1))]_vars

\* the keys of a user record that update_user writes for these fields
Written(fields) == DOMAIN fields \cap {"name", "email", "age"}

\* C24: UserService.update_user on an existing user writes the keys name,
\* email and age present in the fields, and updated_at, and nothing else: id
\* and created_at, the other users' records and next_id stay, other keys are
\* ignored; on a missing user it raises ValueError 'not found' and changes
\* nothing
C24_UpdateFrame ==
    [][OnService(last_call', "update_user") =>
         /\ next_id' = next_id
         /\ DOMAIN users' = DOMAIN users
         /\ \A j \in DOMAIN users : j # last_call'.user_id => users'[j] = users[j]
         /\ last_call'.user_id \notin DOMAIN users =>
               ValueErrorEnding(last_out', " not found")
         /\ last_call'.user_id \in DOMAIN users =>
               \E old \in {users[last_call'.user_id]}, new \in {users'[last_call'.user_id]} :
                  /\ last_out' = Return(Obj(new))
                  /\ DOMAIN new = DOMAIN old
                  /\ \A k \in Written(last_call'.kwargs) : new[k] = last_call'.kwargs[k]
                  /\ \A k \in DOMAIN old \ (Written(last_call'.kwargs) \cup {"updated_at"}) :
                        new[k] = old[k]]_vars

\* an update that named the id along with the name was applied to a stored user
C24_Witness ==
    /\ OnService(last_call, "update_user")
    /\ DOMAIN last_call.kwargs = {"id", "name"}
    /\ last_call.user_id \in DOMAIN users
    /\ users[last_call.user_id]["name"] = last_call.kwargs["name"]
    /\ users[last_call.user_id]["id"] = Num(last_call.user_id)

\* C25: in UserService, after any sequence of create_user, update_user and
\* delete_user calls, no two stored users have the same email
C25_ServiceEmailsDistinct ==
    \A i \in DOMAIN users, j \in DOMAIN users :
        i # j => users[i]["email"] # users[j]["email"]

\* C27: a CalculationResource.create_calculation call that raises ValueError
\* leaves the resource as it was: no record is stored and next_id is the same
\* as before the call
C27_FailedCreateKeepsState ==
    [][(/\ last_call'.on = "CalculationResource"
        /\ last_call'.op = "create_calculation"
        /\ last_out'.kind = "raise"
        /\ last_out'.exc = "ValueError") => calc_store' = calc_store]_vars

\* the four stores, each as its records and its counter
Stores == {"UserService", "UserResource", "TaxCalculationResource", "CalculationResource"}

StoreOf(s) ==
    CASE s = "UserService" -> [records |-> users, next_id |-> next_id]
      [] s = "UserResource" -> [records |-> rest_users, next_id |-> rest_next_id]
      [] s = "TaxCalculationResource" -> [records |-> tax_store.calculations,
                                          next_id |-> tax_store.next_id]
      [] s = "CalculationResource" -> [records |-> calc_store.calculations,
                                       next_id |-> calc_store.next_id]

\* what a step does to one store, given the store before and after it: the
\* first record created has id 1, keys lie in 1..next_id-1 and are the ids of
\* their records, next_id does not decrease, and a new record takes an id that
\* was never assigned before
IdsKept(first, pre, post) ==
    /\ first => DOMAIN post.records \ DOMAIN pre.records = {1}
    /\ \A k \in DOMAIN post.records :
          /\ 1 <= k
          /\ k < post.next_id
          /\ post.records[k]["id"] = Num(k)
    /\ post.next_id >= pre.next_id
    /\ \A k \in DOMAIN post.records \ DOMAIN pre.records : k >= pre.next_id

\* C26: in each of the four stores, under sequential calls, the first created
\* record gets id 1, every stored key k satisfies 1 <= k < next_id and is the
\* id of its record, next_id never decreases, and so the id of a deleted
\* record is never assigned again
C26_IdsKept ==
    [][\A s \in Stores :
          IdsKept(s \notin created /\ s \in created', StoreOf(s), StoreOf(s)')]_vars

\* C28: in TaxCalculationResource, after any sequence of create_calculation,
\* update_calculation and delete_calculation calls, every stored calculation
\* has income >= 0 and deductions >= 0
C28_StoredNonNegative ==
    \A k \in DOMAIN tax_store.calculations :
        /\ ~PyLt(tax_store.calculations[k]["income"], Num(0)).v.b
        /\ ~PyLt(tax_store.calculations[k]["deductions"], Num(0)).v.b

\* the methods among calls[i..] that returned, the calls being made in order
\* on the service from store st on
RECURSIVE Returned(_, _, _)
Returned(st, calls, i) ==
    IF i > Len(calls) THEN {}
    ELSE LET Step(r) == (IF r.out.kind = "return" THEN {calls[i].method} ELSE {})
                            \cup Returned(r.st, calls, i + 1)
         IN Step(Call(st, calls[i].method, calls[i].args, calls[i].kwargs))

\* C29: the dispatcher keeps no state of its own: a request changes users or
\* next_id only when it invoked create_user, update_user or delete_user and
\* that handler returned; requests rejected in validation, naming an
\* unregistered method, whose handler raises, or invoking any other method
\* leave both unchanged
C29_OnlyHandlersChangeState ==
    [][(users' # users \/ next_id' # next_id) =>
          Returned([users |-> users, next_id |-> next_id], invoked', 1)
              \cap {"create_user", "update_user", "delete_user"} # {}]_vars

\* a get_user_by_id call was answered with the stored user, and the store
\* still holds that user
C29_Witness ==
    /\ RegisteredCall(body) /\ MethodOf(body) = "get_user_by_id"
    /\ "result" \in DOMAIN http.body.o
    /\ 1 \in DOMAIN users
    /\ http.body.o["result"] = Obj(users[1])

\* the entry e is a notification that passes validation and names a
\* registered method
ValidNotification(e) ==
    /\ e.t = "obj"
    /\ Get(e.o, "jsonrpc") = Str("2.0")
    /\ "id" \notin DOMAIN e.o
    /\ "method" \in DOMAIN e.o /\ e.o["method"].t = "str"
    /\ e.o["method"].s \in {<<m>> : m \in method_map}

\* the params member of the entry e, and the one invocation e asks for
ParamsIn(e) == IF "params" \in DOMAIN e.o THEN e.o["params"] ELSE Absent
InvocationOf(e) ==
    Invocation(e.o["method"].s[1], ExpectedArgs(ParamsIn(e)), ExpectedKwargs(ParamsIn(e)))

\* the handler of e called once on the service in store st
Executed(st, e) ==
    Call(st, e.o["method"].s[1], ExpectedArgs(ParamsIn(e)), ExpectedKwargs(ParamsIn(e)))

\* the single notification handled in this step did what r, its handler
\* called once, does: the handler's state is the server's, nothing is answered
NotifiedLike(e, r) ==
    /\ invoked' = <<InvocationOf(e)>>
    /\ http' = NoContent
    /\ users' = r.st.users
    /\ next_id' = r.st.next_id
    /\ (e.o["method"].s[1] = "create_user" /\ r.out.kind = "return") =>
          /\ next_id' = next_id + 1
          /\ DOMAIN users' = DOMAIN users \cup {next_id}
          /\ Obj(users'[next_id]) = r.out.v

\* the batch of a notification and a further entry handled in this step left
\* what r left: the further entry dispatched on the store the notification left
ObservedBy(r) ==
    /\ users' = r.st.users
    /\ next_id' = r.st.next_id
    /\ http' = BatchOf(Answered(r))

\* C30: a notification that passes validation is executed like a call: its
\* handler is invoked exactly once and its state change takes effect (a
\* create_user notification stores the user and advances next_id) although no
\* envelope is returned, and the request after it in the same batch is
\* answered from the store the notification left
C30_NotificationExecuted ==
    [][/\ (body'.decodable /\ ValidNotification(body'.data)) =>
             NotifiedLike(body'.data,
                          Executed([users |-> users, next_id |-> next_id], body'.data))
       /\ (/\ body'.decodable /\ body'.data.t = "list" /\ Len(body'.data.l) = 2
           /\ ValidNotification(body'.data.l[1]) /\ body'.data.l[2].t = "obj") =>
             ObservedBy(handle_request(
                            Executed([users |-> users, next_id |-> next_id], body'.data.l[1]).st,
                            Decoded(body'.data.l[2])))]_vars

\* a delete_user notification and a get_user_by_id call were sent in one
\* batch, and the call was answered that the user is not found
C30_Witness ==
    /\ body.decodable /\ body.data.t = "list" /\ Len(body.data.l) = 2
    /\ ValidNotification(body.data.l[1])
    /\ body.data.l[1].o["method"] = Str("delete_user")
    /\ body.data.l[2].t = "obj"
    /\ Get(body.data.l[2].o, "method") = Str("get_user_by_id")
    /\ invoked = <<InvocationOf(body.data.l[1]), InvocationOf(body.data.l[2])>>
    /\ next_id = 2 /\ DOMAIN users = {}
    /\ http.body.t = "list" /\ Len(http.body.l) = 1
    /\ "error" \in DOMAIN http.body.l[1].o

====
